---- MODULE Spec2Model ----
(***************************************************************************)
(* A model of django-apn-search: the signal handlers that capture entity   *)
(* changes, the post-commit dispatch of index updates (synchronous or via  *)
(* a message queue), and the queue consumer that applies queued updates    *)
(* with one retry.                                                         *)
(*                                                                         *)
(* Python strings are modelled as sequences of one-character strings, so   *)
(* that formatting and splitting an identifier are computed.               *)
(***************************************************************************)
EXTENDS Naturals, Sequences, FiniteSets, TLC

(***************************************************************************)
(* Bounds of the model.                                                    *)
(***************************************************************************)
MaxPk == 1
MaxMsgs == 1
MaxQueued == 1
MaxCalls == 2
MaxDepth == 1

PKs == 1..MaxPk

(***************************************************************************)
(* Strings and identifiers.                                                *)
(***************************************************************************)
Digits == <<"0", "1", "2", "3", "4", "5", "6", "7", "8", "9">>

RECURSIVE IntToStr(_)
IntToStr(n) ==
    IF n < 10 THEN <<Digits[n + 1]>>
    ELSE IntToStr(n \div 10) \o <<Digits[(n % 10) + 1]>>

\* The one indexed model of the model: app_label "b", module_name "p".
AppLabel == <<"b">>
ModuleName == <<"p">>

\* Items handed to update_object / queue_update: an identifier string, a
\* Model instance (with the fields should_index looks at), or a LazyModel.
StrItem(s) == [t |-> "str", s |-> s]
Instance(pk, live) == [t |-> "instance", pk |-> pk, live |-> live]
LazyItem(s) == [t |-> "lazy", s |-> s]

IsString(item) == item.t = "str"

\* "%s.%s.%s" % (app_label, module_name, pk) for an instance; a string is
\* returned as it is.
get_identifier(item) ==
    IF item.t = "instance"
    THEN AppLabel \o <<".">> \o ModuleName \o <<".">> \o IntToStr(item.pk)
    ELSE item.s

\* str.split('.', maxsplit)
RECURSIVE SplitFrom(_, _, _, _)
SplitFrom(s, i, cur, maxsplit) ==
    IF i > Len(s) THEN <<cur>>
    ELSE IF s[i] = "." /\ maxsplit > 0
         THEN <<cur>> \o SplitFrom(s, i + 1, <<>>, maxsplit - 1)
         ELSE SplitFrom(s, i + 1, Append(cur, s[i]), maxsplit)

Split(s, maxsplit) == SplitFrom(s, 1, <<>>, maxsplit)

\* The identifiers of the entities of the model, and strings that are not
\* identifiers of a registered model.
Ident(pk) == get_identifier(Instance(pk, TRUE))
Idents == {Ident(pk) : pk \in PKs}
BadIdents == {<<"x">>}

\* _get_model on an identifier string: "ok" when the string splits into
\* three parts naming a registered content type, else the error it raises.
get_model_of(identifier) ==
    LET parts == Split(identifier, 2)
    IN  IF Len(parts) # 3 THEN "ValueError"
        ELSE IF parts[1] = AppLabel /\ parts[2] = ModuleName THEN "ok"
        ELSE "DoesNotExist"

\* The primary key an identifier of the indexed model names (0 when the
\* third component is no key of the model).
PkOf(identifier) ==
    LET parts == Split(identifier, 2)
    IN  IF Len(parts) = 3 /\ \E pk \in PKs : IntToStr(pk) = parts[3]
        THEN CHOOSE pk \in PKs : IntToStr(pk) = parts[3]
        ELSE 0

(***************************************************************************)
(* The entity store, the search index and the per-type index object.       *)
(***************************************************************************)
EntityStates == {"absent", "live", "hidden"}

\* Does the row an identifier names exist in the data store?
Exists(store, identifier) ==
    /\ get_model_of(identifier) = "ok"
    /\ PkOf(identifier) \in PKs
    /\ store[PkOf(identifier)] # "absent"

\* One entry of a call trace.
Event(op, id, err) == [op |-> op, id |-> id, err |-> err]
NoId == <<>>

\* The errors an update attempt can meet.  DatabaseError and OtherError are
\* raised while the index or the entity is looked up; the three request
\* errors are raised by the call to the search engine.
RequestErrors == {"HTTPError", "ConnectionError", "Timeout"}
LookupErrors == {"DatabaseError", "OtherError"}
Faults == {"ok"} \cup RequestErrors \cup LookupErrors

\* The faults drawn for the producing side, where update_object handles
\* every error alike.
ProducerFaults == {"ok", "ConnectionError", "DatabaseError"}

\* CommonSearchIndex.should_index as an index class overrides it: only live
\* entities are indexed.  An instance carries its own fields; a LazyModel
\* loads them from the data store.
should_index(item, store) ==
    IF item.t = "instance" THEN item.live
    ELSE Exists(store, item.s) /\ store[PkOf(item.s)] = "live"

remove_object_toggles(item, idx, fault) ==
    LET id == get_identifier(item)
        made == <<Event("index.remove_object", id, "ok"),
                  Event("backend.remove", id, "ok")>>
    IN  IF fault \in RequestErrors
        THEN [index |-> idx, calls |-> made, error |-> fault]
        ELSE [index |-> (idx \ {id}) \cup ({id} \ idx), calls |-> made,
              error |-> "ok"]

\* CommonSearchIndex.remove_object -> backend.remove: delete the document.
\* Result: the index, the calls made, the error raised ("ok" for none).
remove_object(item, idx, fault) ==
    LET id == get_identifier(item)
        made == <<Event("index.remove_object", id, "ok"),
                  Event("backend.remove", id, "ok")>>
    IN  IF fault \in RequestErrors
        THEN [index |-> idx, calls |-> made, error |-> fault]
        ELSE [index |-> idx \ {id}, calls |-> made, error |-> "ok"]

\* What a call that raised returns: nothing.
ReturnedOr(error, value) == IF error = "ok" THEN value ELSE "raised"

index_update_object_always_writes(item, store, idx, fault) ==
    LET id == get_identifier(item)
        made == <<Event("index.update_object", id, "ok"),
                  Event("backend.update", id, "ok")>>
    IN  IF fault \in RequestErrors
        THEN [index |-> idx, calls |-> made, error |-> fault,
              returned |-> "raised"]
        ELSE [index |-> idx \cup {id}, calls |-> made, error |-> "ok",
              returned |-> "True"]

\* CommonSearchIndex.update_object: write the document when should_index
\* says so, else remove it.  "returned" is what the call reports.
index_update_object(item, store, idx, fault) ==
    LET id == get_identifier(item)
        entry == <<Event("index.update_object", id, "ok")>>
    IN  IF should_index(item, store)
        THEN LET made == entry \o <<Event("backend.update", id, "ok")>>
             IN  IF fault \in RequestErrors
                 THEN [index |-> idx, calls |-> made, error |-> fault,
                       returned |-> ReturnedOr(fault, "True")]
                 ELSE [index |-> idx \cup {id}, calls |-> made, error |-> "ok",
                       returned |-> "True"]
        ELSE LET r == remove_object(item, idx, fault)
             IN  [index |-> r.index, calls |-> entry \o r.calls,
                  error |-> r.error, returned |-> ReturnedOr(r.error, "False")]

\* get_index(item): the error it raises, "ok" for none.
get_index(item, fault) ==
    LET found == IF IsString(item) \/ item.t = "lazy"
                 THEN get_model_of(item.s) ELSE "ok"
    IN  IF found # "ok" THEN found
        ELSE IF fault \in LookupErrors THEN fault
        ELSE "ok"

is_gone_never(lazy, remove, store) == FALSE

\* Lines 54-58: a LazyModel of an entity that is gone from the data store
\* turns the update into a removal.
is_gone(lazy, remove, store) ==
    ~remove /\ lazy.t = "lazy" /\ ~Exists(store, lazy.s)

is_removal_ignoring_flag(lazy, remove, store) == is_gone(lazy, FALSE, store)

\* Line 60: remove, as passed in or as set for an entity that is gone.
is_removal(lazy, remove, store) == remove \/ is_gone(lazy, remove, store)

\* update_object(item, remove, exception_handling) of update.py, run with
\* no transaction open.  "raised" is the error that leaves the function.
update_object(item, remove, exception_handling, store, idx, fault) ==
    LET lookup == get_index(item, fault)
        lazy == IF IsString(item) /\ ~remove THEN LazyItem(item.s) ELSE item
        gone == is_gone(lazy, remove, store)
        removing == is_removal(lazy, remove, store)
        warn == IF gone
                THEN <<Event("log.warning", get_identifier(lazy), "ok")>>
                ELSE <<>>
        r == IF lookup # "ok"
             THEN [index |-> idx, calls |-> <<>>, error |-> lookup]
             ELSE IF removing
                  THEN LET d == remove_object(lazy, idx, fault)
                       IN  [d EXCEPT !.calls = warn \o d.calls]
                  ELSE index_update_object(lazy, store, idx, fault)
    IN  [index |-> r.index,
         calls |-> IF r.error # "ok" /\ exception_handling
                   THEN r.calls \o <<Event("log.exception", get_identifier(item), r.error)>>
                   ELSE r.calls,
         error |-> r.error,
         raised |-> IF exception_handling THEN "ok" ELSE r.error]

(***************************************************************************)
(* Queue messages.  A message body is bytes: either the pickle of a Python *)
(* value or bytes that are no pickle at all.                               *)
(***************************************************************************)
PyDict(d) == [py |-> "dict", d |-> d]
PyList == [py |-> "list"]

pickle_dumps(value) == [bytes |-> "pickle", value |-> value]
Garbage == [bytes |-> "garbage"]

\* pickle.loads: the value, or the error raised.
pickle_loads(body) ==
    IF body.bytes = "pickle"
    THEN [error |-> "ok", value |-> body.value]
    ELSE [error |-> "UnpicklingError", value |-> PyList]

\* The message queue_update builds: 'remove' is present only when true.
make_message(item, remove) ==
    IF remove
    THEN [identifier |-> get_identifier(item), remove |-> TRUE]
    ELSE [identifier |-> get_identifier(item)]

unpack_lenient(body) ==
    LET loaded == pickle_loads(body)
        none == [error |-> "ok", identifier |-> NoId, remove |-> FALSE]
    IN  IF loaded.error # "ok" THEN [none EXCEPT !.error = loaded.error]
        ELSE IF loaded.value.py # "dict" THEN [none EXCEPT !.error = "TypeError"]
        ELSE [error |-> "ok",
              identifier |-> IF "identifier" \in DOMAIN loaded.value.d
                             THEN loaded.value.d.identifier ELSE NoId,
              remove |-> IF "remove" \in DOMAIN loaded.value.d
                         THEN loaded.value.d.remove ELSE FALSE]

\* Lines 38-41 of process_message: unpack the body into identifier and
\* remove flag (dict.get gives None, which is false, for a missing key).
unpack(body) ==
    LET loaded == pickle_loads(body)
        none == [error |-> "ok", identifier |-> NoId, remove |-> FALSE]
    IN  IF loaded.error # "ok" THEN [none EXCEPT !.error = loaded.error]
        ELSE IF loaded.value.py # "dict" THEN [none EXCEPT !.error = "TypeError"]
        ELSE IF "identifier" \notin DOMAIN loaded.value.d
             THEN [none EXCEPT !.error = "KeyError"]
        ELSE [error |-> "ok",
              identifier |-> loaded.value.d.identifier,
              remove |-> IF "remove" \in DOMAIN loaded.value.d
                         THEN loaded.value.d.remove ELSE FALSE]

\* Bodies that some other publisher, or corruption, can leave on the queue.
ForeignBodies ==
    {Garbage, pickle_dumps(PyList), pickle_dumps(PyDict([remove |-> TRUE]))}
    \cup {pickle_dumps(PyDict([identifier |-> s])) : s \in BadIdents}

RetryExceptions == {"HTTPError", "ConnectionError", "Timeout", "DatabaseError"}

(***************************************************************************)
(* MessageHandler.process_message, split at its one suspension point, the  *)
(* sleep before the retry.                                                 *)
(***************************************************************************)
AckEvent(ok) == Event("queue.ack", NoId, IF ok THEN "ok" ELSE "QueueError")

on_error_never_closes(error) == <<>>

\* on_error: a DatabaseError closes the data-store connections.
on_error(error) ==
    IF error = "DatabaseError"
    THEN <<Event("connection.close", NoId, "ok")>>
    ELSE <<>>

\* update_search_index(): update_object(identifier, remove=remove,
\* exception_handling=False); the last entry of its trace tells how the
\* attempt ended.
update_search_index(identifier, remove, store, idx, fault) ==
    LET r == update_object(StrItem(identifier), remove, FALSE, store, idx, fault)
    IN  [r EXCEPT !.calls = r.calls \o
             <<Event("update_search_index", identifier, r.raised)>>]

\* What a step of process_message leaves: the trace, the index, whether the
\* message left the queue, whether an exception left process_message, and
\* whether the handler now sleeps before its retry.
Outcome(trace, idx, acked, escaped, sleeping) ==
    [calls |-> trace, index |-> idx, acked |-> acked, escaped |-> escaped,
     sleeping |-> sleeping]

\* Lines 42-47: the body could not be unpacked; log, acknowledge, return.
\* ack1 and ack2 tell whether the first and the second call of queue.ack
\* in a step return (TRUE) or raise.
on_invalid(u, idx, ack1) ==
    Outcome(<<Event("log.error", NoId, u.error), AckEvent(ack1)>>,
            idx, ack1, ~ack1, FALSE)

\* Line 65 after a first attempt that returned.  When queue.ack raises
\* there, the handler of line 67 finds retry false and acknowledges again.
on_success(a, u, ack1, ack2) ==
    IF ack1
    THEN Outcome(a.calls \o <<AckEvent(TRUE)>>, a.index, TRUE, FALSE, FALSE)
    ELSE Outcome(a.calls \o <<AckEvent(FALSE),
                              Event("log.error", u.identifier, "QueueError"),
                              AckEvent(ack2)>>,
                 a.index, ack2, ~ack2, FALSE)

on_retryable_acks_first(a, u) ==
    Outcome(a.calls \o <<AckEvent(TRUE),
                         Event("log.warning", u.identifier, a.raised)>> \o
                on_error(a.raised) \o <<Event("time.sleep", NoId, "ok")>>,
            a.index, TRUE, FALSE, TRUE)

\* Lines 58-62: a retryable error; warn, reset connections, sleep.
on_retryable(a, u) ==
    Outcome(a.calls \o <<Event("log.warning", u.identifier, a.raised)>> \o
                on_error(a.raised) \o <<Event("time.sleep", NoId, "ok")>>,
            a.index, FALSE, FALSE, TRUE)

on_permanent_unacked(a, u, ack1) ==
    Outcome(a.calls \o <<Event("log.error", u.identifier, a.raised)>>,
            a.index, FALSE, FALSE, FALSE)

\* Lines 78-85: any other error of the first attempt; log and acknowledge.
on_permanent(a, u, ack1) ==
    Outcome(a.calls \o <<Event("log.error", u.identifier, a.raised),
                         AckEvent(ack1)>>,
            a.index, ack1, ~ack1, FALSE)

\* Lines 37-62, and 65-85 when nothing is retried.
process_first(body, store, idx, fault, ack1, ack2) ==
    LET u == unpack(body)
        a == update_search_index(u.identifier, u.remove, store, idx, fault)
    IN  IF u.error # "ok" THEN on_invalid(u, idx, ack1)
        ELSE IF a.raised = "ok" THEN on_success(a, u, ack1, ack2)
        ELSE IF a.raised \in RetryExceptions THEN on_retryable(a, u)
        ELSE on_permanent(a, u, ack1)

\* Lines 69-76: retry is true; log, do not acknowledge.
GiveUp(u, error) ==
    <<Event("log.critical", u.identifier, error),
      Event("log.error", u.identifier, "ok")>>

on_retry_failure_acked(a, u) ==
    Outcome(a.calls \o GiveUp(u, a.raised) \o <<AckEvent(TRUE)>>,
            a.index, TRUE, FALSE, FALSE)

\* The retry raised.
on_retry_failure(a, u) ==
    Outcome(a.calls \o GiveUp(u, a.raised), a.index, FALSE, FALSE, FALSE)

\* Line 65 after a retry that returned.  When queue.ack raises there, the
\* handler of line 67 finds retry true.
on_retry_success(a, u, ack1) ==
    IF ack1
    THEN Outcome(a.calls \o <<AckEvent(TRUE)>>, a.index, TRUE, FALSE, FALSE)
    ELSE Outcome(a.calls \o <<AckEvent(FALSE)>> \o GiveUp(u, "QueueError"),
                 a.index, FALSE, FALSE, FALSE)

\* Line 63 onwards: the retry, then the acknowledgement or the critical log.
process_retry(body, store, idx, fault, ack1) ==
    LET u == unpack(body)
        a == update_search_index(u.identifier, u.remove, store, idx, fault)
    IN  IF a.raised = "ok" THEN on_retry_success(a, u, ack1)
        ELSE on_retry_failure(a, u)

(***************************************************************************)
(* Update options (options.py): thread-local attributes, scopes that set   *)
(* and restore them, and the read that the signal handler does.            *)
(***************************************************************************)
OptionNames == {"async", "disabled", "percolate"}
ScopeNames == {"async", "disabled"}

defaults == [name \in OptionNames |->
                IF name = "disabled" THEN FALSE ELSE TRUE]

\* Partial functions from names to booleans.
Partial(names) == UNION {[dom -> BOOLEAN] : dom \in SUBSET names}
NoAttrs == [name \in {} |-> TRUE]

option_read_scope_first(settings, attrs, name) ==
    IF name \in DOMAIN attrs THEN attrs[name]
    ELSE IF name \in DOMAIN settings THEN settings[name]
    ELSE defaults[name]

\* SearchUpdateOptions.__getitem__
option_read(settings, attrs, name) ==
    IF name \in DOMAIN settings THEN settings[name]
    ELSE IF name \in DOMAIN attrs THEN attrs[name]
    ELSE defaults[name]

\* SearchUpdateOptions.__call__ up to the yield: remember what was set, set
\* the scope's values.
scope_enter(attrs, options) ==
    [before |-> [n \in DOMAIN options \cap DOMAIN attrs |-> attrs[n]],
     attrs |-> [n \in DOMAIN attrs \cup DOMAIN options |->
                   IF n \in DOMAIN options THEN options[n] ELSE attrs[n]]]

scope_exit_always_deletes(attrs, options, before) ==
    [n \in DOMAIN attrs \ DOMAIN options |-> attrs[n]]

\* ... and after the yield: restore or delete each named option.
scope_exit(attrs, options, before) ==
    [n \in (DOMAIN attrs \ DOMAIN options) \cup DOMAIN before |->
        IF n \in DOMAIN before THEN before[n] ELSE attrs[n]]

(***************************************************************************)
(* Change capture and dispatch (signals.py, update.py).                    *)
(***************************************************************************)
Call(fn, item, remove) == [fn |-> fn, item |-> item, remove |-> remove]

event_item_always_instance(instance, deleting) == instance

\* Lines 22-30 of signals.py: a deletion passes the identifier string, which
\* is computed here, a save passes the instance.
event_item(instance, deleting) ==
    IF deleting THEN StrItem(get_identifier(instance)) ELSE instance

dispatch_always_queues(instance, signal, settings, attrs) ==
    LET deleting == (signal = "post_delete")
    IN  <<Call("queue_update", event_item(instance, deleting), deleting)>>

\* Lines 22-35: the one call the handler makes when indexing is enabled.
dispatch(instance, signal, settings, attrs) ==
    LET deleting == (signal = "post_delete")
        item == event_item(instance, deleting)
    IN  IF option_read(settings, attrs, "async")
        THEN <<Call("queue_update", item, deleting)>>
        ELSE <<Call("update_object", item, deleting)>>

handler_skips_saves_only(instance, signal, settings, attrs) ==
    IF option_read(settings, attrs, "disabled") /\ signal = "post_save"
    THEN <<>>
    ELSE dispatch(instance, signal, settings, attrs)

\* search_index_signal_handler: the calls it makes, none or one.
search_index_signal_handler(instance, signal, settings, attrs) ==
    IF option_read(settings, attrs, "disabled") THEN <<>>
    ELSE dispatch(instance, signal, settings, attrs)

post_commit_key_with_flag(item, remove) == <<get_identifier(item), remove>>

\* The key of post_commit_once: the item's identifier, whatever the other
\* arguments.
post_commit_key(item, remove) == get_identifier(item)

\* The run-once-per-key registry of a transaction.  A call whose key is
\* registered already either is dropped or takes the place of the
\* registered call; which of the two the wrapper does is left open.
KeyOf(call) == post_commit_key(call.item, call.remove)

post_commit_register(registry, call, replace) ==
    IF \E i \in 1..Len(registry) : KeyOf(registry[i]) = KeyOf(call)
    THEN IF replace
         THEN [i \in 1..Len(registry) |->
                  IF KeyOf(registry[i]) = KeyOf(call) THEN call ELSE registry[i]]
         ELSE registry
    ELSE Append(registry, call)

\* queue_update(item, remove), run with no transaction open.  sent tells
\* whether opening the queue and queue.put succeed.  Result: the index, the
\* body put on the queue (in a sequence, empty when none was put), the trace.
enqueue_failed_drops_remove(item, remove, store, idx, fault) ==
    update_object(item, FALSE, TRUE, store, idx, fault)

\* Lines 94-100 of update.py: the message could not be sent; the update
\* runs at once.
enqueue_failed(item, remove, store, idx, fault) ==
    update_object(item, remove, TRUE, store, idx, fault)

queue_update(item, remove, store, idx, sent, fault) ==
    LET message_body == pickle_dumps(PyDict(make_message(item, remove)))
        fallback == enqueue_failed(item, remove, store, idx, fault)
    IN  IF sent
        THEN [index |-> idx, put |-> <<message_body>>,
              calls |-> <<Event("queue.put", get_identifier(item), "ok")>>]
        ELSE [index |-> fallback.index, put |-> <<>>,
              calls |-> <<Event("queue.put", get_identifier(item), "QueueError"),
                          Event("log.exception", get_identifier(item), "QueueError")>>
                        \o fallback.calls]

\* Run one dispatched call after the commit.
run_call(call, store, idx, sent, fault) ==
    IF call.fn = "queue_update"
    THEN queue_update(call.item, call.remove, store, idx, sent, fault)
    ELSE LET r == update_object(call.item, call.remove, TRUE, store, idx, fault)
         IN  [index |-> r.index, put |-> <<>>, calls |-> r.calls]

(***************************************************************************)
(* State.                                                                  *)
(***************************************************************************)
VARIABLES
    db,         \* the committed data store: primary key -> entity state
    txnOpen,    \* is a transaction open in the producing thread?
    txnDb,      \* the data store as the open transaction sees it
    pending,    \* calls registered to run after the commit
    toRun,      \* calls of a committed transaction that still have to run
    settings,   \* settings.HAYSTACK_UPDATE_OPTIONS
    attrs,      \* the thread-local attributes of search_update_options
    scopes,     \* the active search_update_options(...) scopes, innermost last
    queue,      \* the messages on the queue
    nextMsgId,  \* the id the next message gets
    index,      \* the identifiers of the documents in the search index
    pc,         \* the consumer: "stopped", "idle" or "sleeping"
    cur,        \* the message the consumer handles or handled last
    seen,       \* ids of the messages delivered in this consumer run
    calls,      \* the trace of process_message for cur
    hEvent,     \* the signal handled in the last step and the calls its
                \* handler made (NoEvent when the step handled no signal)
    hRun,       \* the dispatched call the last step ran, and how it ran
                \* (NoRun when the step ran none)
    txnCalls,   \* handler calls made per identifier in the open transaction
    due,        \* the same, of the last committed transaction
    ran,        \* calls run per identifier after the last commit
    declared,   \* what the index's get_related_models() returns
    receivers,  \* per signal, the receivers connected to it, in order
    setups,     \* per signal, the _setup_* calls since the last teardown
    hSend,      \* the signal sent in the last step and what it invoked
                \* (NoSend when the step sent none)
    tls,        \* per thread, the attributes of search_update_options
    stacks,     \* per thread, its active scopes, innermost last
    input,      \* the arguments of the operation a specification applies
    output,     \* what the operation did with them (NotApplied before)
    setup_complete,    \* ElasticsearchSearchBackend.setup_complete
    existing_mapping,  \* ElasticsearchSearchBackend.existing_mapping
    engine,            \* per index name, what the search engine holds
    backendConf,       \* silently_fail, and settings.DEBUG or TEST_MODE
    hCall              \* the last call made on the backend

pipelineVars == <<db, txnOpen, txnDb, pending, toRun, settings, attrs, scopes,
                  queue, nextMsgId, index, pc, cur, seen, calls, hEvent, hRun,
                  txnCalls, due, ran>>
signalVars == <<declared, receivers, setups, hSend>>
threadVars == <<tls, stacks>>
callVars == <<input, output>>
backendVars == <<setup_complete, existing_mapping, engine, backendConf, hCall>>
componentVars == <<signalVars, threadVars, callVars, backendVars>>
besideSignals == <<threadVars, callVars, backendVars>>
besideThreads == <<signalVars, callVars, backendVars>>
besideCalls == <<signalVars, threadVars, backendVars>>
besideBackend == <<signalVars, threadVars, callVars>>
vars == <<pipelineVars, componentVars>>

producerVars == <<db, txnOpen, txnDb, pending, toRun, txnCalls, due, ran>>
optionVars == <<attrs, scopes>>
consumerVars == <<pc, cur, seen, calls>>

NoMsg == [id |-> 0, body |-> Garbage]
NoEvent == [signal |-> "none", pk |-> 0, made |-> <<>>]
NoRun == [call |-> <<>>, sent |-> FALSE, fault |-> "ok"]
Zero == [id \in Idents |-> 0]

\* The step handles no signal and runs no dispatched call.
NoHistory == hEvent' = NoEvent /\ hRun' = NoRun

\* cur and calls describe the message in the consumer's hands; once the
\* handler has returned they are kept for one step and then dropped.
Forget ==
    /\ UNCHANGED <<pc, seen>>
    /\ IF pc = "sleeping" THEN UNCHANGED <<cur, calls>>
       ELSE cur' = NoMsg /\ calls' = <<>>

\* What settings.HAYSTACK_UPDATE_OPTIONS may hold in a deployment.
SettingsChoices ==
    {NoAttrs, [name \in {"async"} |-> FALSE], [name \in {"disabled"} |-> TRUE]}

Signals == {"post_save", "post_delete"}
NoSend == [sender |-> [app_label |-> <<>>, module_name |-> <<>>], signal |-> "none", invoked |-> <<>>]

\* No index declares related models, no handler is connected.
SignalsIdle ==
    /\ declared = <<>>
    /\ receivers = [signal \in Signals |-> <<>>]
    /\ setups = [signal \in Signals |-> 0]
    /\ hSend = NoSend

Threads == {"t1", "t2"}

\* No thread has entered a scope.
ThreadsIdle ==
    /\ tls = [t \in Threads |-> NoAttrs]
    /\ stacks = [t \in Threads |-> <<>>]

NoInput == [given |-> FALSE]
Given(value) == [given |-> TRUE, value |-> value]
NotApplied == [applied |-> FALSE]
Applied(value) == [applied |-> TRUE, value |-> value]

\* No operation is applied on its own.
CallsIdle ==
    /\ input = NoInput
    /\ output = NotApplied

\* A mapping as the engine and the backend hold it: {} or
\* {'modelresult': {'properties': ...}}; Absent is an index that is not there.
EmptyMapping == [t |-> "empty"]
Mapping(properties) == [t |-> "mapping", properties |-> properties]
Absent == [t |-> "absent"]

IndexNames == {"main", "alt"}
\* The order in which a process iterates index_groups.
IndexGroups == <<"main", "alt">>

Err(type, at) == [type |-> type, at |-> at]
NoError == Err("none", "")
NoCall == [op |-> "none", complete |-> FALSE, args |-> <<>>, requests |-> <<>>,
           logged |-> <<>>, error |-> NoError, raised |-> NoError,
           returned |-> "none"]

\* A backend that has made no call, on an engine without indexes.
BackendIdle ==
    /\ setup_complete = FALSE
    /\ existing_mapping = EmptyMapping
    /\ engine = [g \in IndexNames |-> Absent]
    /\ backendConf = [silently_fail |-> TRUE, debug |-> FALSE]
    /\ hCall = NoCall

PipelineInit ==
    /\ db = [pk \in PKs |-> "absent"]
    /\ txnOpen = FALSE
    /\ txnDb = db
    /\ pending = <<>>
    /\ toRun = <<>>
    /\ settings \in SettingsChoices
    /\ attrs = NoAttrs
    /\ scopes = <<>>
    /\ queue = {}
    /\ nextMsgId = 1
    /\ index = {}
    /\ pc = "stopped"
    /\ cur = NoMsg
    /\ seen = {}
    /\ calls = <<>>
    /\ hEvent = NoEvent
    /\ hRun = NoRun
    /\ txnCalls = Zero
    /\ due = Zero
    /\ ran = Zero

Init ==
    /\ PipelineInit
    /\ SignalsIdle
    /\ ThreadsIdle
    /\ CallsIdle
    /\ BackendIdle

(***************************************************************************)
(* Option scopes.                                                          *)
(***************************************************************************)
EnterScope ==
    \E options \in Partial(ScopeNames) \ {NoAttrs} :
        /\ UNCHANGED componentVars
        /\ Len(scopes) < MaxDepth
        /\ toRun = <<>>
        /\ LET e == scope_enter(attrs, options)
           IN  /\ attrs' = e.attrs
               /\ scopes' = Append(scopes, [options |-> options, before |-> e.before])
        /\ NoHistory
        /\ Forget
        /\ UNCHANGED <<producerVars, settings, queue, nextMsgId, index>>

ExitScope ==
    /\ UNCHANGED componentVars
    /\ scopes # <<>>
    /\ toRun = <<>>
    /\ LET top == scopes[Len(scopes)]
       IN  attrs' = scope_exit(attrs, top.options, top.before)
    /\ scopes' = SubSeq(scopes, 1, Len(scopes) - 1)
    /\ NoHistory
    /\ Forget
    /\ UNCHANGED <<producerVars, settings, queue, nextMsgId, index>>

(***************************************************************************)
(* The producing thread: transactions, entity events, dispatch.            *)
(***************************************************************************)
\* Opening the queue and queue.put succeed or raise; the queue of the model
\* takes MaxQueued messages from this thread.
SentChoices == IF nextMsgId <= MaxQueued THEN BOOLEAN ELSE {FALSE}

TotalCalls(counts) ==
    LET RECURSIVE Sum(_)
        Sum(S) == IF S = {} THEN 0
                  ELSE LET x == CHOOSE y \in S : TRUE
                       IN  counts[x] + Sum(S \ {x})
    IN  Sum(DOMAIN counts)

\* The state of the row after the event.
Written(signal, live) ==
    IF signal = "post_delete" THEN "absent"
    ELSE IF live THEN "live" ELSE "hidden"

\* Running a dispatched call against the store: the index, the queue.  The
\* inputs a call does not use are recorded as not used.
RunEffects(call, store, sent, fault) ==
    LET r == run_call(call, store, index, sent, fault)
        queued == call.fn = "queue_update" /\ sent
    IN  /\ index' = r.index
        /\ queue' = queue \cup {[id |-> nextMsgId, body |-> r.put[i]] : i \in 1..Len(r.put)}
        /\ nextMsgId' = nextMsgId + Len(r.put)
        /\ hRun' = [call |-> <<call>>, sent |-> queued,
                    fault |-> IF queued THEN "ok" ELSE fault]

Begin ==
    /\ UNCHANGED componentVars
    /\ ~txnOpen
    /\ toRun = <<>>
    /\ txnOpen' = TRUE
    /\ txnDb' = db
    /\ txnCalls' = Zero
    /\ due' = Zero
    /\ ran' = Zero
    /\ NoHistory
    /\ Forget
    /\ UNCHANGED <<db, pending, toRun, optionVars, settings,
                   queue, nextMsgId, index>>

\* The commit makes the writes visible and hands the registered calls over.
Commit ==
    /\ UNCHANGED componentVars
    /\ txnOpen
    /\ txnOpen' = FALSE
    /\ db' = txnDb
    /\ txnDb' = txnDb
    /\ toRun' = pending
    /\ pending' = <<>>
    /\ due' = txnCalls
    /\ txnCalls' = Zero
    /\ NoHistory
    /\ Forget
    /\ UNCHANGED <<ran, optionVars, settings, queue, nextMsgId,
                   index>>

\* A rollback drops the writes and the registered calls.
Rollback ==
    /\ UNCHANGED componentVars
    /\ txnOpen
    /\ txnOpen' = FALSE
    /\ txnDb' = db
    /\ pending' = <<>>
    /\ txnCalls' = Zero
    /\ NoHistory
    /\ Forget
    /\ UNCHANGED <<db, toRun, due, ran, optionVars, settings,
                   queue, nextMsgId, index>>

\* A saved or deleted entity inside a transaction: the handler's call is
\* registered under its key.
EventInTxn ==
    \E pk \in PKs, signal \in {"post_save", "post_delete"}, live \in BOOLEAN,
       replace \in BOOLEAN :
        /\ UNCHANGED componentVars
        /\ txnOpen
        /\ TotalCalls(txnCalls) < MaxCalls
        /\ signal = "post_delete" => (txnDb[pk] # "absent" /\ live = (txnDb[pk] = "live"))
        /\ LET instance == Instance(pk, live)
               made == search_index_signal_handler(instance, signal, settings, attrs)
           IN  /\ txnDb' = [txnDb EXCEPT ![pk] = Written(signal, live)]
               /\ hEvent' = [signal |-> signal, pk |-> pk, made |-> made]
               /\ IF made = <<>>
                  THEN UNCHANGED <<pending, txnCalls>>
                  ELSE /\ pending' = post_commit_register(pending, made[1], replace)
                       /\ txnCalls' = [txnCalls EXCEPT ![get_identifier(made[1].item)] = @ + 1]
        /\ hRun' = NoRun
        /\ Forget
        /\ UNCHANGED <<db, txnOpen, toRun, due, ran, optionVars,
                       settings, queue, nextMsgId, index>>

\* The same with no transaction open: the write is committed at once and
\* the handler's call runs at once.
EventAutocommit ==
    \E pk \in PKs, signal \in {"post_save", "post_delete"}, live \in BOOLEAN,
       sent \in SentChoices, fault \in ProducerFaults :
        /\ UNCHANGED componentVars
        /\ ~txnOpen
        /\ toRun = <<>>
        /\ signal = "post_delete" => (db[pk] # "absent" /\ live = (db[pk] = "live"))
        /\ LET instance == Instance(pk, live)
               made == search_index_signal_handler(instance, signal, settings, attrs)
               store == [db EXCEPT ![pk] = Written(signal, live)]
           IN  /\ db' = store
               /\ txnDb' = store
               /\ hEvent' = [signal |-> signal, pk |-> pk, made |-> made]
               /\ IF made = <<>>
                  THEN /\ hRun' = NoRun
                       /\ UNCHANGED <<queue, nextMsgId, index>>
                  ELSE RunEffects(made[1], store, sent, fault)
        /\ Forget
        /\ UNCHANGED <<txnOpen, pending, toRun, txnCalls, due, ran, optionVars, settings>>

\* After the commit the registered calls run one after the other.
RunCallback ==
    \E sent \in SentChoices, fault \in ProducerFaults :
        /\ UNCHANGED componentVars
        /\ toRun # <<>>
        /\ RunEffects(Head(toRun), db, sent, fault)
        /\ toRun' = Tail(toRun)
        /\ ran' = [ran EXCEPT ![get_identifier(Head(toRun).item)] = @ + 1]
        /\ hEvent' = NoEvent
        /\ Forget
        /\ UNCHANGED <<db, txnOpen, txnDb, pending, txnCalls, due, optionVars, settings>>

(***************************************************************************)
(* The consumer's environment: the queue is fed by the producing processes *)
(* (queue_update) and by whatever else writes to it, and the data store    *)
(* changes under the consumer.                                             *)
(***************************************************************************)
\* The bodies queue_update puts for the calls the signal handler makes.
PublishedBodies ==
    {pickle_dumps(PyDict(make_message(Instance(pk, TRUE), FALSE))) : pk \in PKs}
    \cup {pickle_dumps(PyDict(make_message(StrItem(Ident(pk)), TRUE))) : pk \in PKs}

Publish ==
    \E body \in PublishedBodies \cup ForeignBodies :
        /\ UNCHANGED componentVars
        /\ nextMsgId <= MaxMsgs
        /\ queue' = queue \cup {[id |-> nextMsgId, body |-> body]}
        /\ nextMsgId' = nextMsgId + 1
        /\ NoHistory
        /\ Forget
        /\ UNCHANGED <<producerVars, optionVars, settings, index>>

\* Some process commits a change of an entity.
StoreChange ==
    \E pk \in PKs, state \in EntityStates :
        /\ UNCHANGED componentVars
        /\ db[pk] # state
        /\ db' = [db EXCEPT ![pk] = state]
        /\ txnDb' = db'
        /\ NoHistory
        /\ Forget
        /\ UNCHANGED <<txnOpen, pending, toRun, txnCalls, due, ran, optionVars,
                       settings, queue, nextMsgId, index>>

(***************************************************************************)
(* The consumer (start_cron and process_message).                          *)
(***************************************************************************)
StartCron ==
    /\ UNCHANGED componentVars
    /\ pc = "stopped"
    /\ pc' = "idle"
    /\ seen' = {}
    /\ cur' = NoMsg
    /\ calls' = <<>>
    /\ NoHistory
    /\ UNCHANGED <<producerVars, optionVars, settings, queue, nextMsgId, index>>

\* The queue yields no further message: the script quits.
EndCron ==
    /\ UNCHANGED componentVars
    /\ pc = "idle"
    /\ \A m \in queue : m.id \in seen
    /\ pc' = "stopped"
    /\ cur' = NoMsg
    /\ calls' = <<>>
    /\ NoHistory
    /\ UNCHANGED <<producerVars, optionVars, settings, queue, nextMsgId, index,
                   seen>>

\* The effect of a step of process_message on the consumer and the queue.
\* An exception that leaves process_message ends the run.
Processed(m, r) ==
    /\ calls' = IF r.escaped
                THEN r.calls \o <<Event("raise", NoId, "QueueError")>>
                ELSE r.calls
    /\ index' = r.index
    /\ queue' = IF r.acked THEN queue \ {m} ELSE queue
    /\ pc' = IF r.sleeping THEN "sleeping"
             ELSE IF r.escaped THEN "stopped" ELSE "idle"

ProcessMessage ==
    \E m \in queue, fault \in Faults, ack1 \in BOOLEAN, ack2 \in BOOLEAN :
        /\ UNCHANGED componentVars
        /\ pc = "idle"
        /\ m.id \notin seen
        /\ cur' = m
        /\ seen' = seen \cup {m.id}
        /\ Processed(m, process_first(m.body, db, index, fault, ack1, ack2))
        /\ NoHistory
        /\ UNCHANGED <<producerVars, optionVars, settings, nextMsgId>>

RetryMessage ==
    \E fault \in Faults, ack1 \in BOOLEAN :
        /\ UNCHANGED componentVars
        /\ pc = "sleeping"
        /\ LET r == process_retry(cur.body, db, index, fault, ack1)
           IN  Processed(cur, [r EXCEPT !.calls = calls \o r.calls])
        /\ NoHistory
        /\ UNCHANGED <<producerVars, optionVars, settings, nextMsgId, cur, seen>>

(***************************************************************************)
(* Specifications.  Spec is the producing side: entity events in and out   *)
(* of transactions, option scopes, dispatch to the queue or to the index.  *)
(* SpecConsume is the consuming side: messages put by queue_update and by  *)
(* other publishers, drained by the consumer.                              *)
(***************************************************************************)
Next ==
    \/ EnterScope
    \/ ExitScope
    \/ Begin
    \/ Commit
    \/ Rollback
    \/ EventInTxn
    \/ EventAutocommit
    \/ RunCallback

Spec == Init /\ [][Next]_vars

InitConsume == Init /\ settings = NoAttrs

NextConsume ==
    \/ Publish
    \/ StoreChange
    \/ StartCron
    \/ EndCron
    \/ ProcessMessage
    \/ RetryMessage

SpecConsume == InitConsume /\ [][NextConsume]_vars

(***************************************************************************)
(* Signal handlers of an index (indexes.py, signals.py).                   *)
(***************************************************************************)
MaxSetups == 2
MaxTargets == 2

Model(app_label, module_name) ==
    [app_label |-> app_label, module_name |-> module_name]
IndexedModel == Model(AppLabel, ModuleName)
RelatedModels == {Model(AppLabel, <<"r">>), Model(AppLabel, <<"s">>)}
FieldNames == {"fa", "fb"}
Relation(related_model, field_name) ==
    [model |-> related_model, field |-> field_name]

\* What an index may declare in get_related_models(): nothing (the
\* default), one relation, relations to two models, two relations to one.
Declarations ==
    LET r == Model(AppLabel, <<"r">>)
        s == Model(AppLabel, <<"s">>)
    IN  {<<>>,
         <<Relation(r, "fa")>>,
         <<Relation(r, "fa"), Relation(s, "fb")>>,
         <<Relation(r, "fa"), Relation(r, "fb")>>}

\* 'apn_search.related_signal_handler:%s.%s->%s.%s'
related_signal_handler_uid(related_model, indexed_model) ==
    <<"apn_search.related_signal_handler:">>
        \o related_model.app_label \o <<".">> \o related_model.module_name
        \o <<"-", ">">>
        \o indexed_model.app_label \o <<".">> \o indexed_model.module_name

\* The receivers: search_index_signal_handler is one module-level function;
\* make_related_signal_handler makes a new function on every call (fn tells
\* them apart).
IndexHandler == [kind |-> "index", field |-> "", fn |-> 0]
make_related_signal_handler(attr_name, fn) ==
    [kind |-> "related", field |-> attr_name, fn |-> fn]

\* signal.connect / signal.disconnect keep one receiver per lookup key: the
\* dispatch_uid when one is given, the receiver itself otherwise, and the
\* sender.
NoUid == <<>>
NoReceiver == [kind |-> "none", field |-> "", fn |-> 0]
lookup_key(receiver, sender, dispatch_uid) ==
    IF dispatch_uid # NoUid
    THEN [uid |-> dispatch_uid, receiver |-> NoReceiver, sender |-> sender]
    ELSE [uid |-> NoUid, receiver |-> receiver, sender |-> sender]

connect(rs, receiver, sender, dispatch_uid) ==
    LET key == lookup_key(receiver, sender, dispatch_uid)
    IN  IF \E i \in 1..Len(rs) : rs[i].key = key THEN rs
        ELSE Append(rs, [key |-> key, sender |-> sender, receiver |-> receiver])

disconnect(rs, receiver, sender, dispatch_uid) ==
    LET key == lookup_key(receiver, sender, dispatch_uid)
    IN  SelectSeq(rs, LAMBDA r : r.key # key)

signal_method(method, rs, receiver, sender, dispatch_uid) ==
    IF method = "connect" THEN connect(rs, receiver, sender, dispatch_uid)
    ELSE disconnect(rs, receiver, sender, dispatch_uid)

manage_related_handler_without_uid(method, rs, relation, indexed_model, fn) ==
    signal_method(method, rs, make_related_signal_handler(relation.field, fn),
                  relation.model, NoUid)

\* Lines 35-43 of indexes.py: one related model of the index.
manage_related_handler(method, rs, relation, indexed_model, fn) ==
    signal_method(method, rs, make_related_signal_handler(relation.field, fn),
                  relation.model,
                  related_signal_handler_uid(relation.model, indexed_model))

\* CommonSearchIndex._manage_signal_handler on one signal's receivers.
RECURSIVE manage_related(_, _, _, _, _, _)
manage_related(method, rs, relations, i, indexed_model, fn) ==
    IF i > Len(relations) THEN rs
    ELSE manage_related(method,
                        manage_related_handler(method, rs, relations[i],
                                               indexed_model, fn),
                        relations, i + 1, indexed_model, fn)

_manage_signal_handler(method, rs, relations, fn) ==
    manage_related(method,
                   signal_method(method, rs, IndexHandler, IndexedModel, NoUid),
                   relations, 1, IndexedModel, fn)

\* The value of the declared attribute of a related instance: None, an
\* indexable instance, a callable returning one of the others, a Manager,
\* or an iterable of instances.
None == [t |-> "None"]
Callable(returns) == [t |-> "callable", returns |-> returns]
Manager(all) == [t |-> "manager", all |-> all]
Iterable(items) == [t |-> "iterable", items |-> items]

SeqsUpTo(S, n) == UNION {[1..k -> S] : k \in 0..n}

\* The instances that exist in the store.
Stored(store) ==
    {Instance(pk, store[pk] = "live") : pk \in {k \in PKs : store[k] # "absent"}}

AccessorValues(store) ==
    LET direct == {None} \cup Stored(store)
        managers == {Manager(q) : q \in SeqsUpTo(Stored(store), MaxTargets)}
        iterables == {Iterable(q) : q \in SeqsUpTo(Stored(store), MaxTargets)}
    IN  direct \cup managers \cup iterables
            \cup {Callable(v) : v \in direct \cup managers}

\* Lines 53-59 of signals.py: the values the handler loops over.
resolve(value) ==
    LET called == IF value.t = "callable" THEN value.returns ELSE value
        listed == IF called.t = "manager" THEN Iterable(called.all) ELSE called
    IN  IF listed.t = "iterable" THEN listed.items ELSE <<listed>>

\* One call of search_index_signal_handler from a receiver: the calls it
\* makes, and whether it raises.  Nothing in the handler looks at the
\* instance when indexing is disabled; otherwise the instance is handed to
\* queue_update or update_object, whose post_commit key asks it for its
\* identifier, which None does not have.
handle(instance, signal, conf, local) ==
    IF instance = None
    THEN [made |-> <<>>,
          error |-> IF option_read(conf, local, "disabled") THEN "ok"
                    ELSE "AttributeError"]
    ELSE [made |-> search_index_signal_handler(instance, signal, conf, local),
          error |-> "ok"]

SyntheticDelete(instance) == [instance |-> instance, signal |-> "post_delete"]

\* Lines 61-64: one synthetic post_save per value, until one raises.
SyntheticSave(instance) == [instance |-> instance, signal |-> "post_save"]

RECURSIVE fan_out(_, _, _, _, _, _)
fan_out(values, i, conf, local, raised, made) ==
    IF i > Len(values) THEN [raised |-> raised, made |-> made, error |-> "ok"]
    ELSE IF handle(values[i], SyntheticSave(values[i]).signal, conf, local).error # "ok"
    THEN [raised |-> Append(raised, SyntheticSave(values[i])), made |-> made,
          error |-> handle(values[i], SyntheticSave(values[i]).signal, conf, local).error]
    ELSE fan_out(values, i + 1, conf, local,
                 Append(raised, SyntheticSave(values[i])),
                 made \o handle(values[i], SyntheticSave(values[i]).signal, conf, local).made)

related_signal_handler(value, conf, local) ==
    fan_out(resolve(value), 1, conf, local, <<>>, <<>>)

NoValue == [t |-> "unused"]

\* One receiver called by signal.send: what it was given, the synthetic
\* events it raised, the calls made, how it ended.
Invoke(r, instance, signal, accessors, conf, local) ==
    IF r.receiver.kind = "index"
    THEN LET h == handle(instance, signal, conf, local)
         IN  [receiver |-> r.receiver, value |-> NoValue, raised |-> <<>>,
              made |-> h.made, error |-> h.error]
    ELSE LET f == related_signal_handler(accessors[r.receiver.field], conf, local)
         IN  [receiver |-> r.receiver, value |-> accessors[r.receiver.field],
              raised |-> f.raised, made |-> f.made, error |-> f.error]

\* signal.send(sender, instance): the connected receivers of that sender,
\* in order; an exception of a receiver ends the send.
RECURSIVE send(_, _, _, _, _, _, _, _)
send(rs, i, sender, instance, signal, accessors, conf, local) ==
    IF i > Len(rs) THEN <<>>
    ELSE IF rs[i].sender # sender
    THEN send(rs, i + 1, sender, instance, signal, accessors, conf, local)
    ELSE LET inv == Invoke(rs[i], instance, signal, accessors, conf, local)
         IN  IF inv.error # "ok" THEN <<inv>>
             ELSE <<inv>> \o send(rs, i + 1, sender, instance, signal,
                                  accessors, conf, local)

RECURSIVE MadeBy(_)
MadeBy(invoked) ==
    IF invoked = <<>> THEN <<>>
    ELSE Head(invoked).made \o MadeBy(Tail(invoked))

\* The dispatched calls run one after the other, no transaction being
\* open.  Result: the index and the bodies put on the queue.
RECURSIVE run_calls(_, _, _, _, _, _)
run_calls(made, store, idx, sent, fault, put) ==
    IF made = <<>> THEN [index |-> idx, put |-> put]
    ELSE run_calls(Tail(made), store,
                   run_call(Head(made), store, idx, sent, fault).index,
                   sent, fault,
                   put \o run_call(Head(made), store, idx, sent, fault).put)

Manage(signal, method) ==
    /\ receivers' = [receivers EXCEPT ![signal] =
                        _manage_signal_handler(method, @, declared,
                                               setups[signal] + 1)]
    /\ setups' = [setups EXCEPT ![signal] =
                     IF method = "connect" THEN @ + 1 ELSE 0]
    /\ hSend' = NoSend
    /\ UNCHANGED <<declared, pipelineVars, besideSignals>>

_setup_save == setups["post_save"] < MaxSetups /\ Manage("post_save", "connect")
_setup_delete == setups["post_delete"] < MaxSetups /\ Manage("post_delete", "connect")
_teardown_save == Manage("post_save", "disconnect")
_teardown_delete == Manage("post_delete", "disconnect")

\* What a send leaves behind: the dispatched calls have run.
SendEffects(sender, signal, invoked, store, sent, fault) ==
    \E r \in {run_calls(MadeBy(invoked), store, index, sent, fault, <<>>)} :
        /\ index' = r.index
        /\ queue' = queue \cup {[id |-> nextMsgId + i - 1, body |-> r.put[i]] :
                                   i \in 1..Len(r.put)}
        /\ nextMsgId' = nextMsgId + Len(r.put)
        /\ hSend' = [sender |-> sender, signal |-> signal, invoked |-> invoked]
        /\ NoHistory
        /\ Forget
        /\ UNCHANGED <<txnOpen, pending, toRun, txnCalls, due, ran, optionVars,
                       settings, declared, receivers, setups, besideSignals>>

\* Whether the queue takes the messages of the calls made; it does not
\* matter when no call is made.  The backend works.
RunInputs(invoked) ==
    IF MadeBy(invoked) = <<>> THEN {[sent |-> FALSE, fault |-> "ok"]}
    ELSE [sent : SentChoices, fault : {"ok"}]

\* An entity of the indexed model is saved or deleted, no transaction open.
SendIndexed ==
    \E pk \in PKs, signal \in Signals, live \in BOOLEAN :
        /\ signal = "post_delete" => (db[pk] # "absent" /\ live = (db[pk] = "live"))
        /\ LET store == [db EXCEPT ![pk] = Written(signal, live)]
               invoked == send(receivers[signal], 1, IndexedModel,
                               Instance(pk, live), signal, <<>>, settings, attrs)
           IN  /\ db' = store
               /\ txnDb' = store
               /\ \E in \in RunInputs(invoked) :
                      SendEffects(IndexedModel, signal, invoked, store,
                                  in.sent, in.fault)

\* The fields whose handlers a send of the signal by the sender reaches.
ConnectedFields(signal, sender) ==
    {receivers[signal][i].receiver.field :
        i \in {j \in 1..Len(receivers[signal]) :
                  /\ receivers[signal][j].sender = sender
                  /\ receivers[signal][j].receiver.kind = "related"}}

\* An entity of a related model is saved or deleted.
SendRelated ==
    \E sender \in RelatedModels, signal \in Signals :
        \E accessors \in [ConnectedFields(signal, sender) -> AccessorValues(db)] :
            LET invoked == send(receivers[signal], 1, sender, None, signal,
                                accessors, settings, attrs)
            IN  /\ UNCHANGED <<db, txnDb>>
                /\ \E in \in RunInputs(invoked) :
                       SendEffects(sender, signal, invoked, db, in.sent, in.fault)

InitSignals ==
    /\ PipelineInit
    /\ ThreadsIdle
    /\ CallsIdle
    /\ BackendIdle
    /\ declared \in Declarations
    /\ receivers = [signal \in Signals |-> <<>>]
    /\ setups = [signal \in Signals |-> 0]
    /\ hSend = NoSend

NextSignals ==
    \/ _setup_save
    \/ _setup_delete
    \/ _teardown_save
    \/ _teardown_delete
    \/ SendIndexed
    \/ SendRelated

SpecSignals == InitSignals /\ [][NextSignals]_vars

(***************************************************************************)
(* Reading the trace of the message the consumer has in hand.              *)
(***************************************************************************)
Positions(op) == {i \in 1..Len(calls) : calls[i].op = op}
Count(op) == Cardinality(Positions(op))

\* The update attempts made so far, in order, and how each ended.
NumAttempts == Count("update_search_index")
AttemptPos(n) ==
    CHOOSE i \in Positions("update_search_index") :
        Cardinality({j \in Positions("update_search_index") : j <= i}) = n
AttemptResult(n) == calls[AttemptPos(n)].err

Handling == cur # NoMsg
Returned == cur # NoMsg /\ pc # "sleeping"
AckRaised == \E i \in Positions("queue.ack") : calls[i].err # "ok"
Propagated == Count("raise") > 0

\* What the body is, read off the bytes.
WellFormed(body) ==
    /\ body.bytes = "pickle"
    /\ body.value.py = "dict"
    /\ "identifier" \in DOMAIN body.value.d
AsksRemoval(body) ==
    /\ WellFormed(body)
    /\ "remove" \in DOMAIN body.value.d
    /\ body.value.d.remove = TRUE

(***************************************************************************)
(* C1: when the first update attempt raises a retryable error and the one  *)
(* retry raises too, queue.ack has not been called for the message, the    *)
(* message is still on the queue, no exception has left process_message    *)
(* and the consuming loop is ready for the next message; and there is      *)
(* never a third attempt.                                                  *)
(***************************************************************************)
C1_Case ==
    /\ Handling
    /\ NumAttempts >= 2
    /\ AttemptResult(1) \in RetryExceptions
    /\ AttemptResult(2) # "ok"

C1_RetryFailedLeavesUnacked ==
    /\ NumAttempts <= 2
    /\ C1_Case =>
        /\ Count("queue.ack") = 0
        /\ cur \in queue
        /\ ~Propagated
        /\ pc = "idle"

C1_Witness == C1_Case /\ Count("log.critical") = 1

(***************************************************************************)
(* C2: when the first update attempt raises a retryable error and the      *)
(* retry succeeds, the update path has run exactly twice, queue.ack has    *)
(* been called exactly once, after the retry returned, and the message has *)
(* left the queue when that call returned.                                 *)
(***************************************************************************)
C2_Case ==
    /\ Returned
    /\ NumAttempts >= 1
    /\ AttemptResult(1) \in RetryExceptions
    /\ AttemptResult(NumAttempts) = "ok"

C2_RetrySucceededAcksOnce ==
    C2_Case =>
        /\ NumAttempts = 2
        /\ Count("queue.ack") = 1
        /\ \A i \in Positions("queue.ack") : i > AttemptPos(2)
        /\ ~AckRaised => cur \notin queue

C2_Witness == C2_Case /\ ~AckRaised /\ cur \notin queue

(***************************************************************************)
(* C3: when the first update attempt raises an error that is not in        *)
(* RetryExceptions, the update is attempted exactly once, queue.ack is     *)
(* called exactly once, and, the acknowledgement having returned, the      *)
(* message has left the queue and no exception leaves process_message.     *)
(***************************************************************************)
C3_Case ==
    /\ Handling
    /\ NumAttempts >= 1
    /\ AttemptResult(1) \notin RetryExceptions \cup {"ok"}

C3_PermanentErrorAcksOnce ==
    C3_Case =>
        /\ Returned
        /\ NumAttempts = 1
        /\ Count("queue.ack") = 1
        /\ ~AckRaised => (cur \notin queue /\ ~Propagated /\ pc = "idle")

C3_Witness == C3_Case /\ ~AckRaised /\ AttemptResult(1) = "OtherError"

(***************************************************************************)
(* C4: a body that is no pickle, or the pickle of something without an     *)
(* 'identifier' entry, is acknowledged exactly once without any update     *)
(* attempt or index call, and, the acknowledgement having returned, the    *)
(* message has left the queue and no exception leaves process_message.     *)
(***************************************************************************)
C4_Case == Handling /\ ~WellFormed(cur.body)

C4_InvalidMessageAcked ==
    C4_Case =>
        /\ Returned
        /\ Count("queue.ack") = 1
        /\ NumAttempts = 0
        /\ \A i \in 1..Len(calls) : calls[i].op \in {"log.error", "queue.ack", "raise"}
        /\ ~AckRaised => (cur \notin queue /\ ~Propagated /\ pc = "idle")

C4_Witness == C4_Case /\ ~AckRaised /\ cur.body # Garbage

(***************************************************************************)
(* C5: while and after the consumer handles a message whose 'remove' entry *)
(* is true, first attempt and retry alike, every index call in its trace   *)
(* is a removal of the message's identifier: index.update_object and       *)
(* backend.update are never called.                                        *)
(***************************************************************************)
C5_Case == Handling /\ AsksRemoval(cur.body)

IndexOps == {"index.update_object", "index.remove_object",
             "backend.update", "backend.remove"}

C5_RemoveNeverWrites ==
    C5_Case =>
        \A i \in 1..Len(calls) :
            calls[i].op \in IndexOps =>
                /\ calls[i].op \in {"index.remove_object", "backend.remove"}
                /\ calls[i].id = cur.body.value.d.identifier

C5_Witness ==
    /\ C5_Case
    /\ NumAttempts = 2
    /\ Count("index.remove_object") = 2

(***************************************************************************)
(* Reading the last step of the producing thread.                          *)
(***************************************************************************)
Disabled == option_read(settings, attrs, "disabled")
Async == option_read(settings, attrs, "async")

\* The step ran a queue_update whose message could not be put on the queue.
FellBack(run) ==
    /\ run.call # <<>>
    /\ run.call[1].fn = "queue_update"
    /\ ~run.sent

(***************************************************************************)
(* C6: a step in which queue_update cannot put its message on the queue    *)
(* leaves the queue as it was and the index exactly as update_object,      *)
(* called with the same item and the same remove flag as the handler calls *)
(* it when async is false, leaves it; with the search engine reachable the *)
(* document of a removed entity is gone and that of a live saved entity is *)
(* there.                                                                  *)
(***************************************************************************)
C6_FallbackStep ==
    FellBack(hRun') =>
        LET c == hRun'.call[1]
            sync == run_call(Call("update_object", c.item, c.remove),
                             db', index, FALSE, hRun'.fault)
            id == get_identifier(c.item)
        IN  /\ index' = sync.index
            /\ queue' = queue
            /\ (hRun'.fault = "ok" /\ c.remove) => id \notin index'
            /\ (hRun'.fault = "ok" /\ ~c.remove /\ c.item.live) => id \in index'

Registered(id) ==
    Cardinality({i \in 1..Len(pending) : get_identifier(pending[i].item) = id})

C7_OnePerIdentifier ==
    \A id \in Idents :
        /\ ran[id] <= 1
        /\ txnOpen => Registered(id) = (IF txnCalls[id] >= 1 THEN 1 ELSE 0)
        /\ (~txnOpen /\ toRun = <<>>) => ran[id] = (IF due[id] >= 1 THEN 1 ELSE 0)

C7_Witness ==
    \E id \in Idents :
        /\ ~txnOpen
        /\ toRun = <<>>
        /\ due[id] >= 2
        /\ ran[id] = 1

(***************************************************************************)
(* C8: a saved or deleted event handled while the 'disabled' option reads  *)
(* true makes no call: nothing is registered, nothing is run, the queue    *)
(* and the index stay as they are.                                         *)
(***************************************************************************)
C8_DisabledStep ==
    (hEvent'.signal # "none" /\ Disabled) =>
        /\ hEvent'.made = <<>>
        /\ hRun' = NoRun
        /\ UNCHANGED <<queue, nextMsgId, index, pending, toRun>>

C8_DisabledIsNoOp == [][C8_DisabledStep]_vars

C8_Witness ==
    /\ hEvent.signal = "post_delete"
    /\ Disabled
    /\ hEvent.made = <<>>
    /\ index # {}

(***************************************************************************)
(* C9: a saved or deleted event handled while 'disabled' reads false makes *)
(* exactly one call: queue_update when 'async' reads true, update_object   *)
(* when it reads false; with no transaction open that call is the one the  *)
(* step runs.                                                              *)
(***************************************************************************)
C9_Case == hEvent.signal # "none" /\ ~Disabled

C9_OneDispatchByAsync ==
    C9_Case =>
        /\ Len(hEvent.made) = 1
        /\ hEvent.made[1].fn = (IF Async THEN "queue_update" ELSE "update_object")
        /\ ~txnOpen => hRun.call = hEvent.made
        /\ txnOpen => Registered(Ident(hEvent.pk)) = 1

C9_Witness == C9_Case /\ ~Async /\ "async" \in DOMAIN attrs /\ ~txnOpen

(***************************************************************************)
(* C10: the call made for a deleted event carries the identifier string of *)
(* the deleted instance and remove = true; the call made for a saved event *)
(* carries the instance and remove = false.                                *)
(***************************************************************************)
C10_Case == hEvent.signal # "none" /\ hEvent.made # <<>>

C10_DeleteCarriesIdentifier ==
    C10_Case =>
        LET c == hEvent.made[1]
        IN  IF hEvent.signal = "post_delete"
            THEN /\ c.item = StrItem(Ident(hEvent.pk))
                 /\ c.remove = TRUE
            ELSE /\ c.item.t = "instance"
                 /\ c.item.pk = hEvent.pk
                 /\ c.remove = FALSE

C10_Witness == C10_Case /\ hEvent.signal = "post_delete" /\ txnOpen

(***************************************************************************)
(* CommonSearchIndex.update_object called on its own (indexes.py).         *)
(***************************************************************************)
\* What update_object may be handed: an instance, which carries the fields
\* it had when it was loaded, or a LazyModel, which loads them when asked.
IndexableItems == {Instance(pk, live) : pk \in PKs, live \in BOOLEAN}
                      \cup {LazyItem(Ident(pk)) : pk \in PKs}

IndexUpdateObject ==
    \E item \in IndexableItems, fault \in {"ok"} \cup RequestErrors :
        /\ item.t = "lazy" => Exists(db, item.s)
        /\ \E r \in {index_update_object(item, db, index, fault)} :
               /\ index' = r.index
               /\ output' = Applied([item |-> item, store |-> db, before |-> index,
                                     after |-> r.index, calls |-> r.calls,
                                     returned |-> r.returned])
        /\ NoHistory
        /\ Forget
        /\ UNCHANGED <<producerVars, optionVars, settings, queue, nextMsgId,
                       input, besideCalls>>

InitIndex == Init

NextIndex ==
    \/ StoreChange
    \/ IndexUpdateObject

SpecIndex == InitIndex /\ [][NextIndex]_vars

(***************************************************************************)
(* The search backend (backends/elasticsearch_backend.py) and the mapping   *)
(* comparison it uses (utils/mappings.py).                                  *)
(***************************************************************************)
\* Property values of a field mapping: strings, None and True.
PyStr(s) == [t |-> "str", s |-> s]
True == [t |-> "bool", b |-> TRUE]

SearchFields == {"title", "body"}
PropNames == <<"analyzer", "store", "type">>

\* A field's mapping; a property the dict does not hold reads None (.get).
FieldMapping(analyzer, store, type) ==
    [analyzer |-> analyzer, store |-> store, type |-> type]

EQUIVALENT_VALUES == {{PyStr("no"), None}, {PyStr("yes"), True}}

Perms(S) ==
    {order \in [1..Cardinality(S) -> S] : \A x \in S : \E i \in DOMAIN order : order[i] = x}

field_conflicts_type_only(field_name, old, new) ==
    IF new[field_name].type # old[field_name].type THEN <<field_name>> ELSE <<>>

\* The inner loop of find_conflicts: the field is yielded once for each of
\* its properties whose values differ and are not equivalent.
field_conflicts(field_name, old, new) ==
    LET differs(prop_name) ==
            /\ new[field_name][prop_name] # old[field_name][prop_name]
            /\ {old[field_name][prop_name], new[field_name][prop_name]}
                   \notin EQUIVALENT_VALUES
        found == SelectSeq(PropNames, differs)
    IN  [i \in 1..Len(found) |-> field_name]

RECURSIVE shared_conflicts(_, _, _, _, _)
shared_conflicts(fields, i, old, new, yielded) ==
    IF i > Len(fields)
    THEN yielded
    ELSE shared_conflicts(fields, i + 1, old, new,
                          yielded \o field_conflicts(fields[i], old, new))

find_conflicts_any_field(old_mappings, new_mappings, order) ==
    IF old_mappings.t # "mapping" \/ new_mappings.t # "mapping"
    THEN <<>>
    ELSE LET either(f) == f \in DOMAIN old_mappings.properties
                                  \cup DOMAIN new_mappings.properties
         IN  SelectSeq(order, either)

\* find_conflicts, as the sequence it yields; "order" is the order in which
\* the set of shared fields is iterated.
find_conflicts(old_mappings, new_mappings, order) ==
    IF old_mappings.t # "mapping" \/ new_mappings.t # "mapping"
    THEN <<>>
    ELSE LET old == old_mappings.properties
             new == new_mappings.properties
             shared(f) == f \in DOMAIN old \cap DOMAIN new
         IN  shared_conflicts(SelectSeq(order, shared), 1, old, new, <<>>)

\* The mapping build_schema gives for the indexes of an index name.
Text == FieldMapping(PyStr("snowball"), PyStr("yes"), PyStr("string"))
current_mapping(index_name) ==
    IF index_name = "main"
    THEN Mapping([f \in {"title"} |-> Text])
    ELSE Mapping([f \in {"title", "body"} |-> Text])

\* What the engine may hold for an index before the backend's first call:
\* nothing, the same mapping, one that differs in equivalent values only,
\* and one with another type for a shared field.
EngineChoices(index_name) ==
    IF index_name = "main"
    THEN {Absent,
          current_mapping(index_name),
          Mapping([f \in {"title"} |-> FieldMapping(PyStr("snowball"), True, PyStr("string"))]),
          Mapping([f \in {"title"} |-> FieldMapping(None, PyStr("yes"), PyStr("long"))])}
    ELSE {Absent,
          Mapping([f \in {"title", "body"} |-> FieldMapping(None, PyStr("yes"), PyStr("long"))])}

RemoteErrors == {"ElasticSearchError", "ConnectionError"}
HaystackError(field_name) == Err("HaystackError", field_name)

Request(op, index_name) == [op |-> op, index |-> index_name, docs |-> <<>>]

\* A fault of the engine during one call: the request that fails for one
\* index name, and whether get_mapping fails as well.
NoFault == [index |-> "none", at |-> "none", error |-> "ok", get |-> "ok"]
SetupFaults ==
    {NoFault} \cup [index : IndexNames, at : {"create_index", "put_mapping"},
                    error : RemoteErrors, get : {"ok", "ConnectionError"}]

outcome(fault, index_name, op) ==
    IF fault.index = index_name /\ fault.at = op THEN fault.error ELSE "ok"

\* put_mapping merges the new properties into those the index has.
merged(held, pushed) ==
    IF held.t # "mapping"
    THEN pushed
    ELSE Mapping([f \in DOMAIN held.properties \cup DOMAIN pushed.properties |->
                    IF f \in DOMAIN pushed.properties
                    THEN pushed.properties[f] ELSE held.properties[f]])

\* setup, the try block: create_index, put_mapping, remember the mapping.
\* "error" is what the except clause binds.
push_mapping(index_name, st, fault) ==
    LET create == Request("create_index", index_name)
        put == Request("put_mapping", index_name)
        created == IF st.engine[index_name] = Absent
                   THEN EmptyMapping ELSE st.engine[index_name]
    IN  IF outcome(fault, index_name, "create_index") # "ok"
        THEN [st EXCEPT !.requests = @ \o <<create>>,
                        !.error = Err(fault.error, "create_index"),
                        !.raised = Err(fault.error, "create_index")]
        ELSE IF outcome(fault, index_name, "put_mapping") # "ok"
        THEN [st EXCEPT !.engine[index_name] = created,
                        !.requests = @ \o <<create, put>>,
                        !.error = Err(fault.error, "put_mapping"),
                        !.raised = Err(fault.error, "put_mapping")]
        ELSE [st EXCEPT !.engine[index_name] = merged(created, current_mapping(index_name)),
                        !.requests = @ \o <<create, put>>,
                        !.existing_mapping = current_mapping(index_name)]

\* setup, after a failure: read the engine's mapping of the index.  A
\* missing index is a KeyError (pass); another failure raises the original
\* error unless silently_fail.
read_existing(index_name, st, fault, error, conf) ==
    LET asked == [st EXCEPT !.requests = @ \o <<Request("get_mapping", "")>>,
                            !.raised = NoError]
    IN  IF fault.index = index_name /\ fault.get # "ok"
        THEN IF ~conf.silently_fail THEN [asked EXCEPT !.raised = error] ELSE asked
        ELSE IF asked.engine[index_name] = Absent
        THEN asked
        ELSE [asked EXCEPT !.existing_mapping = asked.engine[index_name]]

\* setup, the inner try block: HaystackError for the first conflict that
\* find_conflicts yields, else the original error.
check_conflicts(existing, current, error, order) ==
    LET found == find_conflicts(existing, current, order)
    IN  IF Len(found) > 0 THEN HaystackError(found[1]) ELSE error

reraise_as_conflict(caught, error) == HaystackError(error.at)

\* setup, "except Exception: raise error" around the inner try block: what
\* the block raised is caught, HaystackError included, and the original
\* error is raised.
reraise(caught, error) == error

\* setup, after the mapping was read: raise, or log and go on.
report_failure(index_name, st, error, conf, order) ==
    IF conf.debug \/ ~conf.silently_fail
    THEN [st EXCEPT !.raised =
             reraise(check_conflicts(st.existing_mapping,
                                     current_mapping(index_name), error, order),
                     error)]
    ELSE [st EXCEPT !.logged = @ \o <<[message |-> "exception", object |-> <<>>]>>]

\* setup, the body of the loop for one index name.
setup_group(index_name, st, fault, conf, order) ==
    \* the state after the try block
    LET pushed == push_mapping(index_name, st, fault)
    IN  IF pushed.raised = NoError
        THEN pushed
        ELSE LET read == read_existing(index_name, pushed, fault, pushed.raised, conf)
             IN  IF read.raised # NoError
                 THEN read
                 ELSE report_failure(index_name, read, pushed.raised, conf, order)

RECURSIVE setup_groups(_, _, _, _, _, _)
setup_groups(groups, i, st, fault, conf, order) ==
    IF i > Len(groups) \/ st.raised # NoError
    THEN st
    ELSE setup_groups(groups, i + 1,
                      setup_group(groups[i], st, fault, conf, order),
                      fault, conf, order)

\* ElasticsearchSearchBackend.setup: every index name in turn, whatever
\* setup_complete is; the flag is set when the loop ends without raising.
setup(st, groups, fault, conf, order) ==
    [setup_groups(groups, 1, st, fault, conf, order)
        EXCEPT !.setup_complete = (@ \/ (setup_groups(groups, 1, st, fault, conf, order).raised = NoError))]

(***************************************************************************)
(* ElasticSearch._send_request: errors buried in a bulk response.           *)
(***************************************************************************)
ItemKinds == {"index", "create", "update", "delete"}

\* One entry of a bulk response's 'items': {kind: {...}}, the inner dict
\* with an 'error' key when the engine rejected the item.
ResultOk == [t |-> "dict", keys |-> {"_id", "ok"}]
ResultError == [t |-> "dict", keys |-> {"_id", "error"}]
Item(kind, result) == [kind |-> kind, result |-> result]
Items == {Item(kind, result) : kind \in ItemKinds, result \in {ResultOk, ResultError}}

\* A response body: with a list of items, or without an 'items' key.
Response(items) == [t |-> "response", items |-> [t |-> "list", v |-> items]]
PlainResponse == [t |-> "response", items |-> None]

\* item.get(key)
item_get(item, key) == IF item.kind = key THEN item.result ELSE None

\* The filter of _send_request: the item's 'index' entry is a dict that
\* holds 'error'.
index_error(item) ==
    /\ item_get(item, "index").t = "dict"
    /\ "error" \in item_get(item, "index").keys

\* The errors _send_request collects from a list of items.
collect_errors(items) == SelectSeq(items, index_error)

_send_request(response_data) ==
    IF response_data.items.t = "list" /\ Len(collect_errors(response_data.items.v)) > 0
    THEN [raised |-> Err("ElasticSearchError", "response"),
          errors |-> Len(collect_errors(response_data.items.v)),
          returned |-> None]
    ELSE [raised |-> NoError, errors |-> 0, returned |-> response_data]

(***************************************************************************)
(* ElasticsearchSearchBackend.update, remove, search and                    *)
(* SearchQuerySet.get_document_ids.                                         *)
(***************************************************************************)
PrepOutcomes == {"ok", "RequestException", "ElasticSearchError", "ValueError"}
CaughtInPrepare == {"RequestException", "ElasticSearchError"}

\* An object of the iterable and what index.full_prepare does with it.
Entity(pk, prep) == [pk |-> pk, prep |-> prep]
DocId(obj) == get_identifier(Instance(obj.pk, TRUE))

LogEntry(message, object) == [message |-> message, object |-> object]

\* e.__name__ on a caught exception: instances have no such attribute.
has_name(e) == FALSE

\* update, the body of the loop over the iterable.
prepare_one(obj, conf, acc) ==
    IF obj.prep = "ok"
    THEN [acc EXCEPT !.docs = @ \o <<DocId(obj)>>]
    ELSE IF obj.prep \notin CaughtInPrepare \/ ~conf.silently_fail
    THEN [acc EXCEPT !.raised = Err(obj.prep, "full_prepare")]
    ELSE IF has_name(obj.prep)
    THEN [acc EXCEPT !.logged =
             @ \o <<LogEntry("while preparing object for update", DocId(obj))>>]
    ELSE [acc EXCEPT !.raised = Err("AttributeError", "log.error")]

RECURSIVE prepare(_, _, _, _)
prepare(batch, i, conf, acc) ==
    IF i > Len(batch) \/ acc.raised # NoError
    THEN acc
    ELSE prepare(batch, i + 1, conf, prepare_one(batch[i], conf, acc))

\* What the engine answers to bulk_index: a transport error, or a body.
BulkOutcomes ==
    {[transport |-> "ok", response |-> PlainResponse],
     [transport |-> "ok", response |-> Response(<<Item("index", ResultError)>>)],
     [transport |-> "ConnectionError", response |-> PlainResponse]}

\* update, from bulk_index on.
bulk_write(st, index_name, docs, bulk, commit) ==
    LET sent == [st EXCEPT !.requests =
                    @ \o <<[op |-> "bulk_index", index |-> index_name, docs |-> docs]>>]
    IN  IF bulk.transport # "ok"
        THEN [sent EXCEPT !.raised = Err(bulk.transport, "bulk_index")]
        ELSE IF _send_request(bulk.response).raised # NoError
        THEN [sent EXCEPT !.raised = _send_request(bulk.response).raised]
        ELSE IF commit
        THEN [sent EXCEPT !.requests = @ \o <<Request("refresh", index_name)>>]
        ELSE sent

\* update, after the setup it may have made (ready): the preparation of
\* every object, then the bulk write.
update_prepared(ready, prepped, index_name, bulk, commit) ==
    IF prepped.raised # NoError
    THEN [ready EXCEPT !.logged = prepped.logged, !.raised = prepped.raised]
    ELSE bulk_write([ready EXCEPT !.logged = prepped.logged],
                    index_name, prepped.docs, bulk, commit)

\* update / remove, "if not self.setup_complete": an ElasticSearchError of
\* setup is raised, or logged and the call returns; "stop" says the call is
\* over.
guarded_setup(st, made, conf, message) ==
    IF st.setup_complete
    THEN [st |-> st, stop |-> FALSE]
    ELSE IF made.raised = NoError
    THEN [st |-> made, stop |-> FALSE]
    ELSE IF made.raised.type = "ElasticSearchError" /\ conf.silently_fail
    THEN [st |-> [made EXCEPT !.raised = NoError,
                              !.logged = @ \o <<LogEntry(message, <<>>)>>],
          stop |-> TRUE]
    ELSE [st |-> made, stop |-> TRUE]

update(st, index_name, batch, bulk, commit, groups, fault, conf, order) ==
    LET ready == guarded_setup(st, setup(st, groups, fault, conf, order), conf,
                               "Failed to add documents to Elasticsearch")
    IN  IF ready.stop
        THEN ready.st
        ELSE update_prepared(ready.st,
                 prepare(batch, 1, conf,
                         [docs |-> <<>>, logged |-> ready.st.logged, raised |-> NoError]),
                 index_name, bulk, commit)

\* remove, the try block: delete, refresh.
delete_document(st, index_name, doc_id, failure, commit, conf) ==
    LET sent == [st EXCEPT !.requests =
                    @ \o <<[op |-> "delete", index |-> index_name, docs |-> <<doc_id>>]>>]
    IN  IF failure # "ok"
        THEN IF ~conf.silently_fail
             THEN [sent EXCEPT !.raised = Err(failure, "delete")]
             ELSE [sent EXCEPT !.logged =
                      @ \o <<LogEntry("Failed to remove document from Elasticsearch", doc_id)>>]
        ELSE IF commit
        THEN [sent EXCEPT !.requests = @ \o <<Request("refresh", index_name)>>]
        ELSE sent

remove(st, index_name, doc_id, failure, commit, groups, fault, conf, order) ==
    LET ready == guarded_setup(st, setup(st, groups, fault, conf, order), conf,
                               "Failed to remove document from Elasticsearch")
    IN  IF ready.stop
        THEN ready.st
        ELSE delete_document(ready.st, index_name, doc_id, failure, commit, conf)

\* search, from the engine's search request on; "processed" is what
\* _process_results makes of the raw results.
run_query(st, failure, conf) ==
    LET sent == [st EXCEPT !.requests = @ \o <<Request("search", "")>>]
    IN  IF failure = "ok"
        THEN [sent EXCEPT !.returned = "processed"]
        ELSE IF ~conf.silently_fail
        THEN [sent EXCEPT !.raised = Err(failure, "search")]
        ELSE [sent EXCEPT !.returned = "processed",
                          !.logged =
                 @ \o <<LogEntry("Failed to query Elasticsearch", <<>>)>>]

search_after_setup(st, query_string, failure, groups, fault, conf, order) ==
    IF setup(st, groups, fault, conf, order).raised # NoError
    THEN setup(st, groups, fault, conf, order)
    ELSE IF Len(query_string) = 0
    THEN [setup(st, groups, fault, conf, order) EXCEPT !.returned = "empty"]
    ELSE run_query(setup(st, groups, fault, conf, order), failure, conf)

\* search: nothing is asked for an empty query string ("empty" is
\* {'results': [], 'hits': 0}); setup runs when it has not completed, and
\* what it raises propagates.
search(st, query_string, failure, groups, fault, conf, order) ==
    IF Len(query_string) = 0
    THEN [st EXCEPT !.returned = "empty"]
    ELSE IF st.setup_complete
    THEN run_query(st, failure, conf)
    ELSE IF setup(st, groups, fault, conf, order).raised # NoError
    THEN setup(st, groups, fault, conf, order)
    ELSE run_query(setup(st, groups, fault, conf, order), failure, conf)

\* SearchQuerySet.get_document_ids: backend.setup(), then the search
\* request, outside any try block.
get_document_ids(st, failure, groups, fault, conf, order) ==
    IF setup(st, groups, fault, conf, order).raised # NoError
    THEN setup(st, groups, fault, conf, order)
    ELSE IF failure = "ok"
    THEN [setup(st, groups, fault, conf, order)
             EXCEPT !.requests = @ \o <<Request("search", "")>>]
    ELSE [setup(st, groups, fault, conf, order)
             EXCEPT !.requests = @ \o <<Request("search", "")>>,
                    !.raised = Err(failure, "search")]

\* The backend as a call finds it.
Backend ==
    [setup_complete |-> setup_complete, existing_mapping |-> existing_mapping,
     engine |-> engine, requests |-> <<>>, logged |-> <<>>, error |-> NoError,
     raised |-> NoError, returned |-> "none"]

\* The backend as a call leaves it, and the record of the call.
Called(op, args, st) ==
    /\ setup_complete' = st.setup_complete
    /\ existing_mapping' = st.existing_mapping
    /\ engine' = st.engine
    /\ hCall' = [op |-> op, complete |-> setup_complete, args |-> args,
                 requests |-> st.requests, logged |-> st.logged,
                 error |-> st.error, raised |-> st.raised,
                 returned |-> st.returned]
    /\ UNCHANGED <<backendConf, pipelineVars, besideBackend>>

\* The inputs of the setup a call may make: none when it makes none.
SetupInputs(runs) ==
    IF runs
    THEN [groups : {IndexGroups}, fault : SetupFaults, order : Perms(SearchFields)]
    ELSE {[groups |-> <<>>, fault |-> NoFault, order |-> <<>>]}

\* What update needs after its setup: nothing when the call is over.
BatchInputs(stop, batches, commits) ==
    IF stop
    THEN {[batch |-> <<>>, bulk |-> [transport |-> "ok", response |-> PlainResponse],
           commit |-> TRUE]}
    ELSE [batch : batches, bulk : BulkOutcomes, commit : commits]

Setup ==
    \E i \in SetupInputs(TRUE) :
        Called("setup", <<>>, setup(Backend, i.groups, i.fault, backendConf, i.order))

Update(batches, commits) ==
    \E i \in SetupInputs(~setup_complete) :
        \E b \in BatchInputs(guarded_setup(Backend,
                                  setup(Backend, i.groups, i.fault, backendConf, i.order),
                                  backendConf, "").stop,
                              batches, commits) :
            Called("update", b.batch,
                   update(Backend, "main", b.batch, b.bulk, b.commit,
                          i.groups, i.fault, backendConf, i.order))

UpdateOne == Update({<<Entity(1, prep)>> : prep \in {"ok", "ElasticSearchError"}}, {TRUE})

Remove ==
    \E i \in SetupInputs(~setup_complete), failure \in {"ok", "ConnectionError"} :
        Called("remove", <<>>,
               remove(Backend, "main", DocId(Entity(1, "ok")), failure, TRUE,
                      i.groups, i.fault, backendConf, i.order))

Search ==
    \E query_string \in {<<>>, <<"q">>}, failure \in {"ok", "ConnectionError"} :
        \E i \in SetupInputs(~setup_complete /\ Len(query_string) > 0) :
            Called("search", query_string,
                   search(Backend, query_string, failure,
                          i.groups, i.fault, backendConf, i.order))

GetDocumentIds ==
    \E i \in SetupInputs(TRUE), failure \in {"ok", "ConnectionError"} :
        Called("get_document_ids", <<>>,
               get_document_ids(Backend, failure, i.groups, i.fault, backendConf, i.order))

\* A backend before its first call, on an engine that holds anything.
InitBackend ==
    /\ PipelineInit
    /\ settings = NoAttrs
    /\ SignalsIdle
    /\ ThreadsIdle
    /\ CallsIdle
    /\ setup_complete = FALSE
    /\ existing_mapping = EmptyMapping
    /\ engine \in {e \in [IndexNames -> UNION {EngineChoices(g) : g \in IndexNames}] :
                      \A g \in IndexNames : e[g] \in EngineChoices(g)}
    /\ backendConf \in [silently_fail : BOOLEAN, debug : BOOLEAN]
    /\ hCall = NoCall

NextBackend ==
    \/ Setup
    \/ UpdateOne
    \/ Remove
    \/ Search
    \/ GetDocumentIds

SpecBackend == InitBackend /\ [][NextBackend]_vars

(***************************************************************************)
(* update called with batches, on a backend whose setup has completed.     *)
(***************************************************************************)
MaxBatch == 3
BatchPreps == {"ok", "ElasticSearchError", "ValueError"}

\* The iterables update is given: objects 1, 2, ... and what preparing
\* each of them does.
Batches ==
    {[i \in 1..n |-> Entity(i, preps[i])] :
        n \in 0..MaxBatch, preps \in [1..MaxBatch -> BatchPreps]}

UpdateBatch == Update(Batches, BOOLEAN)

\* A backend after a setup that met no failure.
InitUpdate ==
    /\ PipelineInit
    /\ settings = NoAttrs
    /\ SignalsIdle
    /\ ThreadsIdle
    /\ CallsIdle
    /\ setup_complete = TRUE
    /\ existing_mapping = current_mapping(IndexGroups[Len(IndexGroups)])
    /\ engine = [g \in IndexNames |-> current_mapping(g)]
    /\ backendConf \in [silently_fail : BOOLEAN, debug : BOOLEAN]
    /\ hCall = NoCall

NextUpdate == UpdateBatch

SpecUpdate == InitUpdate /\ [][NextUpdate]_vars

(***************************************************************************)
(* _send_request applied to the responses the engine may give.             *)
(***************************************************************************)
MaxItems == 2
Responses == {PlainResponse} \cup {Response(items) : items \in SeqsUpTo(Items, MaxItems)}

SendRequest ==
    /\ output = NotApplied
    /\ output' = Applied(_send_request(input.value))
    /\ UNCHANGED <<input, pipelineVars, besideCalls>>

InitResponse ==
    /\ PipelineInit
    /\ settings = NoAttrs
    /\ SignalsIdle
    /\ ThreadsIdle
    /\ BackendIdle
    /\ input \in {Given(response) : response \in Responses}
    /\ output = NotApplied

NextResponse == SendRequest

SpecResponse == InitResponse /\ [][NextResponse]_vars

(***************************************************************************)
(* find_conflicts applied to pairs of mappings (utils/mappings.py).        *)
(***************************************************************************)
\* Mappings a field may have: analyzer, store and type each with the values
\* the equivalences name and values outside them.
FieldChoices ==
    {FieldMapping(PyStr("snowball"), PyStr("yes"), PyStr("string")),
     FieldMapping(PyStr("snowball"), PyStr("yes"), PyStr("long")),
     FieldMapping(PyStr("snowball"), True, PyStr("string")),
     FieldMapping(PyStr("snowball"), PyStr("no"), PyStr("string")),
     FieldMapping(PyStr("snowball"), None, PyStr("string")),
     FieldMapping(None, PyStr("yes"), PyStr("string")),
     FieldMapping(None, PyStr("no"), PyStr("long"))}

\* The mappings find_conflicts is given: {} or properties of some fields.
MappingChoices ==
    {EmptyMapping}
        \cup {Mapping(props) : props \in UNION {[fields -> FieldChoices] :
                                                  fields \in SUBSET SearchFields}}

FindConflicts ==
    /\ output = NotApplied
    /\ output' = Applied(find_conflicts(input.value.old, input.value.new,
                                        input.value.order))
    /\ UNCHANGED <<input, pipelineVars, besideCalls>>

InitConflicts ==
    /\ PipelineInit
    /\ settings = NoAttrs
    /\ SignalsIdle
    /\ ThreadsIdle
    /\ BackendIdle
    /\ input \in {Given(i) : i \in [old : MappingChoices, new : MappingChoices,
                                    order : Perms(SearchFields)]}
    /\ output = NotApplied

NextConflicts == FindConflicts

SpecConflicts == InitConflicts /\ [][NextConflicts]_vars

(***************************************************************************)
(* ElasticsearchSearchBackend.build_schema applied to the schema of the    *)
(* parent class.                                                           *)
(***************************************************************************)
\* mapping.get(key) on a field's mapping, a dict with some of the keys.
dict_get(mapping, key) == IF key \in DOMAIN mapping THEN mapping[key] ELSE None

\* del mapping[key] / mapping.pop(key)
dict_del(mapping, key) == [k \in DOMAIN mapping \ {key} |-> mapping[k]]

\* mapping[key] = value
dict_set(mapping, key, value) ==
    [k \in DOMAIN mapping \cup {key} |-> IF k = key THEN value ELSE mapping[k]]

\* What the parent's build_schema gives for a field: booleans and numbers
\* with 'index' and no analyzer, text with an analyzer or not analyzed.
ParentMappings ==
    {[type |-> PyStr("boolean"), index |-> PyStr(i), store |-> PyStr("yes")] :
        i \in {"analyzed", "not_analyzed"}}
    \cup {[type |-> PyStr("string"), index |-> PyStr("analyzed"),
           store |-> PyStr("yes"), analyzer |-> PyStr(a)] :
             a \in {"snowball", "ngram_analyzer", "edgengram_analyzer"}}
    \cup {[type |-> PyStr("string"), index |-> PyStr("not_analyzed"),
           store |-> PyStr("yes")],
          [type |-> PyStr("long"), index |-> PyStr("analyzed"),
           store |-> PyStr("yes")]}

ParentSchemas ==
    UNION {[fields -> ParentMappings] : fields \in SUBSET SearchFields}

keep_boolean_index(mapping) == mapping

\* build_schema, "Don't use an analyzer for boolean fields".
strip_boolean_index(mapping) ==
    IF dict_get(mapping, "type") = PyStr("boolean")
          /\ dict_get(mapping, "index") = PyStr("analyzed")
    THEN dict_del(mapping, "index")
    ELSE mapping

\* build_schema, "Newer ES versions handle autocomplete fields differently".
split_autocomplete(mapping) ==
    IF dict_get(mapping, "analyzer")
          \in {PyStr("ngram_analyzer"), PyStr("edgengram_analyzer")}
    THEN dict_set(dict_set(dict_del(mapping, "analyzer"),
                           "index_analyzer", mapping["analyzer"]),
                  "search_analyzer", PyStr("default"))
    ELSE mapping

\* build_schema: the parent's field mappings, rewritten when new_version.
build_schema(field_mapping, new_version) ==
    IF new_version
    THEN [f \in DOMAIN field_mapping |->
             split_autocomplete(strip_boolean_index(field_mapping[f]))]
    ELSE field_mapping

BuildSchema ==
    /\ output = NotApplied
    /\ output' = Applied(build_schema(input.value.field_mapping,
                                      input.value.new_version))
    /\ UNCHANGED <<input, pipelineVars, besideCalls>>

InitSchema ==
    /\ PipelineInit
    /\ settings = NoAttrs
    /\ SignalsIdle
    /\ ThreadsIdle
    /\ BackendIdle
    /\ input \in {Given(i) : i \in [field_mapping : ParentSchemas,
                                    new_version : BOOLEAN]}
    /\ output = NotApplied

NextSchema == BuildSchema

SpecSchema == InitSchema /\ [][NextSchema]_vars

(***************************************************************************)
(* Identifier strings taken apart (utils/indexes.py, _get_model).          *)
(***************************************************************************)
MaxNameLen == 2
MaxKeyLen == 3

StringsOver(chars, n) == UNION {[1..k -> chars] : k \in 1..n}

\* App labels and model names are Python names: they hold no '.'.  A primary
\* key is any value formatted with %s, so it may hold one.
NameStrings == StringsOver({"a", "b"}, MaxNameLen)
KeyStrings == StringsOver({"1", "."}, MaxKeyLen)

\* "%s.%s.%s" % (app_label, module_name, pk)
format_identifier(ns, name, pk) == ns \o <<".">> \o name \o <<".">> \o pk

split_identifier_every_dot(identifier) == Split(identifier, Len(identifier))

\* identifier.split('.', 2)
split_identifier(identifier) == Split(identifier, 2)

\* app_label, model, object_pk = identifier.split('.', 2): the unpacking
\* raises ValueError unless there are exactly three parts.
unpack_identifier(identifier) ==
    LET parts == split_identifier(identifier)
    IN  [error |-> IF Len(parts) = 3 THEN "none" ELSE "ValueError",
         parts |-> parts]

SplitIdentifier ==
    /\ output = NotApplied
    /\ output' = Applied(unpack_identifier(input.value.identifier))
    /\ UNCHANGED <<input, pipelineVars, besideCalls>>

InitIdentifier ==
    /\ PipelineInit
    /\ settings = NoAttrs
    /\ SignalsIdle
    /\ ThreadsIdle
    /\ BackendIdle
    /\ \E ns \in NameStrings, name \in NameStrings, pk \in KeyStrings :
          input = Given([ns |-> ns, name |-> name, pk |-> pk,
                         identifier |-> format_identifier(ns, name, pk)])
    /\ output = NotApplied

NextIdentifier == SplitIdentifier

SpecIdentifier == InitIdentifier /\ [][NextIdentifier]_vars

(***************************************************************************)
(* A message delivered more than once (consume.py, process_message).       *)
(***************************************************************************)
\* process_message from its first line to its return, the sleep included;
\* the data store does not change meanwhile.  first and again are the
\* faults of the first attempt and of the retry.
after_sleep(trace, retry) == [retry EXCEPT !.calls = trace \o retry.calls]

after_first(attempt, body, store, again, ack1) ==
    IF attempt.sleeping
    THEN after_sleep(attempt.calls,
                     process_retry(body, store, attempt.index, again, ack1))
    ELSE attempt

process_message(body, store, idx, first, again, ack1, ack2) ==
    after_first(process_first(body, store, idx, first, ack1, ack2),
                body, store, again, ack1)

\* The delivery ran the update to its end: an attempt returned.
AppliedUpdate(delivery) ==
    \E i \in 1..Len(delivery.calls) :
        /\ delivery.calls[i].op = "update_search_index"
        /\ delivery.calls[i].err = "ok"

\* The faults of a delivery: a first attempt meets none, a retryable one
\* of the request or of the lookup, or one that is not retried; the retry
\* meets none or fails again.
FirstFaults == {"ok", "ConnectionError", "DatabaseError", "OtherError"}
RetryFaults == {"ok", "ConnectionError"}

\* The index a delivery finds: the one given, or the one the delivery
\* before left.
IndexFound == IF output.applied THEN output.value.last.index ELSE input.value.index

\* What is kept of the deliveries of one message: how many there were,
\* whether the first applied the update, the index it left, and the outcome
\* of the latest.
Kept(r) ==
    IF output.applied
    THEN [output.value EXCEPT !.deliveries = 2, !.last = r]
    ELSE [deliveries |-> 1, applied |-> AppliedUpdate(r), once |-> r.index,
          last |-> r]

\* The queue hands the message out, a first time and then once again; the
\* entity does not change meanwhile.
Deliver ==
    \E first \in FirstFaults, again \in RetryFaults, ack \in BOOLEAN :
        /\ output.applied => output.value.deliveries = 1
        /\ \E r \in {process_message(input.value.body, input.value.store,
                                     IndexFound, first, again, ack, ack)} :
              output' = Applied(Kept(r))
        /\ UNCHANGED <<input, pipelineVars, besideCalls>>

InitRedeliver ==
    /\ PipelineInit
    /\ settings = NoAttrs
    /\ SignalsIdle
    /\ ThreadsIdle
    /\ BackendIdle
    /\ \E body \in PublishedBodies \cup ForeignBodies,
          store \in [PKs -> EntityStates], idx \in SUBSET Idents :
          input = Given([body |-> body, store |-> store, index |-> idx])
    /\ output = NotApplied

NextRedeliver == Deliver

SpecRedeliver == InitRedeliver /\ [][NextRedeliver]_vars

(***************************************************************************)
(* Changes of an entity queued by the signal handler and drained in any    *)
(* order (signals.py, update.py, consume.py).                              *)
(***************************************************************************)
MaxChanges == 3

\* An entity is saved or deleted outside a transaction while updates are
\* asynchronous: the handler's queue_update puts one message.
Change ==
    \E pk \in PKs, signal \in Signals, live \in BOOLEAN :
        /\ UNCHANGED componentVars
        /\ nextMsgId <= MaxChanges
        /\ signal = "post_delete" => (db[pk] # "absent" /\ live = (db[pk] = "live"))
        /\ LET instance == Instance(pk, live)
               made == search_index_signal_handler(instance, signal, settings, attrs)
               store == [db EXCEPT ![pk] = Written(signal, live)]
           IN  /\ db' = store
               /\ txnDb' = store
               /\ hEvent' = [signal |-> signal, pk |-> pk, made |-> made]
               /\ RunEffects(made[1], store, TRUE, "ok")
        /\ Forget
        /\ UNCHANGED <<txnOpen, pending, toRun, txnCalls, due, ran, optionVars,
                       settings>>

\* The faults that pass: the message is either applied or stays queued.  One
\* error of the request and the error of the lookup stand for the four of
\* RetryExceptions.
TransientFaults == {"ok", "ConnectionError", "DatabaseError"}

\* The consumer takes any message the queue holds, whatever the order the
\* messages were put in, and runs process_message on it.
Consume ==
    \E m \in queue, first \in TransientFaults, again \in TransientFaults,
       ack1 \in BOOLEAN, ack2 \in BOOLEAN :
        /\ UNCHANGED componentVars
        /\ pc = "idle"
        /\ m.id \notin seen
        /\ cur' = m
        /\ seen' = seen \cup {m.id}
        /\ \E r \in {process_message(m.body, db, index, first, again, ack1, ack2)} :
              /\ calls' = r.calls
              /\ index' = r.index
              /\ queue' = IF r.acked THEN queue \ {m} ELSE queue
              /\ pc' = IF r.escaped THEN "stopped" ELSE "idle"
        /\ NoHistory
        /\ UNCHANGED <<producerVars, optionVars, settings, nextMsgId>>

InitConverge == Init /\ settings = NoAttrs

NextConverge == Change \/ StartCron \/ EndCron \/ Consume

SpecConverge == InitConverge /\ [][NextConverge]_vars

(***************************************************************************)
(* A change handled on the synchronous path (signals.py, update.py).       *)
(***************************************************************************)
SyncSettings == [name \in {"async"} |-> FALSE]

exception_handling_off == FALSE

\* update_object(item, remove=False, exception_handling=True): the handler
\* passes item and remove only.
exception_handling_default == TRUE

\* What the handler's call did: the call, the index it left, its trace, the
\* error it met and the error that left search_index_signal_handler.
Handled(made, r) ==
    [made |-> made, index |-> r.index, calls |-> r.calls, error |-> r.error,
     raised |-> r.raised]

\* search_index_signal_handler for a saved or deleted entity, run to its
\* end with no transaction open.
HandleSync ==
    /\ output = NotApplied
    /\ \E made \in {search_index_signal_handler(
                        Instance(input.value.pk, input.value.live),
                        input.value.signal, settings, attrs)} :
          /\ made # <<>>
          /\ made[1].fn = "update_object"
          /\ \E r \in {update_object(made[1].item, made[1].remove,
                                     exception_handling_default,
                                     input.value.store, input.value.index,
                                     input.value.fault)} :
                output' = Applied(Handled(made, r))
    /\ UNCHANGED <<input, pipelineVars, besideCalls>>

\* The change is committed when the handler runs: a deleted row is gone, a
\* saved row is there, as this save or a later one of another process left
\* it.
InitSync ==
    /\ PipelineInit
    /\ settings = SyncSettings
    /\ SignalsIdle
    /\ ThreadsIdle
    /\ BackendIdle
    /\ \E pk \in PKs, live \in BOOLEAN, signal \in Signals,
          store \in [PKs -> EntityStates], idx \in SUBSET Idents,
          fault \in Faults :
          /\ (store[pk] = "absent") <=> (signal = "post_delete")
          /\ input = Given([pk |-> pk, live |-> live, signal |-> signal,
                            store |-> store, index |-> idx, fault |-> fault])
    /\ output = NotApplied

NextSync == HandleSync

SpecSync == InitSync /\ [][NextSync]_vars

(***************************************************************************)
(* Option scopes of concurrent threads (options.py).                       *)
(***************************************************************************)
MaxNest == 2

slot_shared(thread) == "t1"

\* SearchUpdateOptions is a threading.local: each thread has its own
\* attributes.
slot(thread) == thread

\* The options a scope is entered with.
OptionChoices ==
    {[name \in {"async"} |-> FALSE],
     [name \in {"async"} |-> TRUE],
     [name \in {"disabled"} |-> TRUE],
     [name \in {"async", "disabled"} |-> (name = "disabled")]}

\* search_update_options[name] in a thread, for every name.
Reads(thread, conf, storage) ==
    [name \in OptionNames |-> option_read(conf, storage[slot(thread)], name)]

\* with search_update_options(**options): up to the yield.
ThreadEnter ==
    \E t \in Threads, options \in OptionChoices :
        /\ Len(stacks[t]) < MaxNest
        /\ \E e \in {scope_enter(tls[slot(t)], options)} :
               /\ tls' = [tls EXCEPT ![slot(t)] = e.attrs]
               /\ stacks' = [stacks EXCEPT ![t] =
                                Append(@, [options |-> options,
                                           before |-> e.before,
                                           reads |-> Reads(t, settings, tls)])]
        /\ UNCHANGED <<pipelineVars, besideThreads>>

\* The body of the innermost scope of a thread ends normally.
ThreadExit ==
    \E t \in Threads :
        /\ stacks[t] # <<>>
        /\ \E top \in {stacks[t][Len(stacks[t])]} :
               tls' = [tls EXCEPT ![slot(t)] =
                          scope_exit(@, top.options, top.before)]
        /\ stacks' = [stacks EXCEPT ![t] = SubSeq(@, 1, Len(@) - 1)]
        /\ UNCHANGED <<pipelineVars, besideThreads>>

InitOptions ==
    /\ PipelineInit
    /\ SignalsIdle
    /\ ThreadsIdle
    /\ CallsIdle
    /\ BackendIdle

NextOptions ==
    \/ ThreadEnter
    \/ ThreadExit

SpecOptions == InitOptions /\ [][NextOptions]_vars

(***************************************************************************)
(* Scopes that are left by an exception, or never entered (options.py).    *)
(***************************************************************************)
\* The body of the innermost scope of a thread raises.  __call__ is a
\* generator made a context manager: the exception is thrown in at the
\* yield, which no try statement surrounds, and leaves the generator there.
RaisedFrom(t) ==
    /\ stacks[t] # <<>>
    /\ stacks' = [stacks EXCEPT ![t] = SubSeq(@, 1, Len(@) - 1)]
    /\ UNCHANGED <<tls, pipelineVars, besideThreads>>

ThreadRaise == \E t \in Threads : RaisedFrom(t)

\* Calls that name an option the defaults do not hold.
UnknownChoices ==
    {[name \in {"bogus"} |-> TRUE],
     [name \in {"async", "bogus"} |-> FALSE],
     [name \in {"disabled", "bogus"} |-> TRUE]}

\* Lines 33-40, the loop over options.items() in the order the dict gives:
\* the assertion, then before[name] and setattr.
RECURSIVE enter_each(_, _, _, _)
enter_each(local, options, order, i) ==
    IF i > Len(order) THEN [attrs |-> local, raised |-> "ok"]
    ELSE IF order[i] \notin DOMAIN defaults
         THEN [attrs |-> local, raised |-> "AssertionError"]
         ELSE enter_each(dict_set(local, order[i], options[order[i]]),
                         options, order, i + 1)

\* with search_update_options(**options) raises before the yield: the scope
\* is not entered and nothing runs on the way out.
EnterFailed(t) ==
    \E options \in UnknownChoices :
        \E order \in Perms(DOMAIN options) :
            \E e \in {enter_each(tls[slot(t)], options, order, 1)} :
                /\ e.raised = "AssertionError"
                /\ tls' = [tls EXCEPT ![slot(t)] = e.attrs]
                /\ UNCHANGED <<stacks, pipelineVars, besideThreads>>

ThreadEnterUnknown == \E t \in Threads : EnterFailed(t)

NextScopes ==
    \/ ThreadEnter
    \/ ThreadExit
    \/ ThreadRaise
    \/ ThreadEnterUnknown

InitScopes == InitOptions /\ settings = NoAttrs

SpecScopes == InitScopes /\ [][NextScopes]_vars

(***************************************************************************)
(* C11. When a related entity changes, the related handler resolves the    *)
(* declared accessor (a value, a callable, a manager, an iterable) to its  *)
(* target entities and raises exactly one synthetic saved event for each,  *)
(* in particular none when the accessor resolves to no entity.             *)
(***************************************************************************)
\* The entities an accessor value stands for.
TargetsOf(value) ==
    LET v == IF value.t = "callable" THEN value.returns ELSE value
    IN  IF v.t = "instance" THEN <<v>>
        ELSE IF v.t = "manager" THEN v.all
        ELSE IF v.t = "iterable" THEN v.items
        ELSE <<>>

RelatedInvocations ==
    {k \in 1..Len(hSend.invoked) : hSend.invoked[k].receiver.kind = "related"}

C11_OneEventPerTarget ==
    \A k \in RelatedInvocations :
        LET targets == TargetsOf(hSend.invoked[k].value)
        IN  hSend.invoked[k].raised =
                [i \in 1..Len(targets) |-> SyntheticSave(targets[i])]

(***************************************************************************)
(* C12. Calling _setup_save (or _setup_delete) n >= 1 times leaves the     *)
(* receivers one call leaves; afterwards an event of the indexed model     *)
(* invokes search_index_signal_handler exactly once and an event of a      *)
(* related model invokes the related handler of the (related model,        *)
(* indexed model) pair exactly once.                                       *)
(***************************************************************************)
DeclaredModels == {declared[i].model : i \in 1..Len(declared)}

InvokedOf(kind) ==
    {k \in 1..Len(hSend.invoked) : hSend.invoked[k].receiver.kind = kind}

C12_SetupIdempotent ==
    /\ \A signal \in Signals :
           setups[signal] >= 1 =>
               receivers[signal] =
                   _manage_signal_handler("connect", <<>>, declared, 1)
    /\ (hSend # NoSend /\ setups[hSend.signal] >= 1) =>
           /\ hSend.sender = IndexedModel =>
                  (Cardinality(InvokedOf("index")) = 1 /\ InvokedOf("related") = {})
           /\ hSend.sender \in DeclaredModels =>
                  (Cardinality(InvokedOf("related")) = 1 /\ InvokedOf("index") = {})

C12_Witness ==
    /\ setups["post_save"] = MaxSetups
    /\ Len(declared) = 2
    /\ hSend.signal = "post_save"
    /\ hSend.sender \in DeclaredModels
    /\ Cardinality(InvokedOf("related")) = 1

(***************************************************************************)
(* C13. In one thread, for properly nested scopes exited normally: an      *)
(* option named in a scope reads the scope's value while the scope is      *)
(* active; after the scope exits every option reads what it read before    *)
(* the scope was entered; after the outermost scope exits no scoped value  *)
(* remains set.                                                            *)
(***************************************************************************)
\* The active scopes of a thread that name the option; the innermost is the
\* one whose value is in force.
Naming(stack, name) == {i \in 1..Len(stack) : name \in DOMAIN stack[i].options}
Innermost(stack, name) ==
    CHOOSE i \in Naming(stack, name) : \A j \in Naming(stack, name) : j <= i

\* The part of the claim that does not depend on what a named option reads.
C13_Restores(t) ==
    /\ Len(stacks'[t]) < Len(stacks[t]) =>
           Reads(t, settings', tls') = stacks[t][Len(stacks[t])].reads
    /\ stacks'[t] = <<>> => tls'[slot(t)] = NoAttrs

\* The claim as stated: every named option reads its scope's value.
C13_OriginalStep ==
    \A t \in Threads :
        /\ \A name \in OptionNames :
               Naming(stacks'[t], name) # {} =>
                   Reads(t, settings', tls')[name] =
                       stacks'[t][Innermost(stacks'[t], name)].options[name]
        /\ C13_Restores(t)

C13_ScopeValueAlwaysRead == [][C13_OriginalStep]_vars

\* As amended: an option that settings.HAYSTACK_UPDATE_OPTIONS defines reads
\* the settings' value inside and outside of every scope; any other named
\* option reads its innermost scope's value.
C13_AmendedStep ==
    \A t \in Threads :
        /\ \A name \in OptionNames :
               IF name \in DOMAIN settings'
               THEN Reads(t, settings', tls')[name] = settings'[name]
               ELSE Naming(stacks'[t], name) # {} =>
                        Reads(t, settings', tls')[name] =
                            stacks'[t][Innermost(stacks'[t], name)].options[name]
        /\ C13_Restores(t)

C13_ScopeValueReadUnlessOverridden == [][C13_AmendedStep]_vars

\* A scope naming async nested in a scope that gave async the other value,
\* nothing being overridden by the settings.
C13_Witness ==
    /\ settings = NoAttrs
    /\ Len(stacks["t1"]) = 2
    /\ "async" \in DOMAIN stacks["t1"][1].options
    /\ "async" \in DOMAIN stacks["t1"][2].options
    /\ stacks["t1"][1].options["async"] # stacks["t1"][2].options["async"]
    /\ Reads("t1", settings, tls)["async"] = stacks["t1"][2].options["async"]

(***************************************************************************)
(* C14. Entering, nesting or exiting scopes in one thread never changes    *)
(* what any option reads in another thread, whatever the interleaving.     *)
(***************************************************************************)
C14_IsolatedStep ==
    \A t \in Threads, u \in Threads :
        (u # t /\ stacks'[t] # stacks[t]) =>
            Reads(u, settings', tls') = Reads(u, settings, tls)

C14_ThreadsIsolated == [][C14_IsolatedStep]_vars

\* Both threads are inside scopes that give async different values, one of
\* them nested, and each reads its own.
C14_Witness ==
    /\ settings = NoAttrs
    /\ Len(stacks["t1"]) = 2
    /\ stacks["t2"] # <<>>
    /\ Reads("t1", settings, tls)["async"] # Reads("t2", settings, tls)["async"]

(***************************************************************************)
(* C15. CommonSearchIndex.update_object evaluates should_index on every    *)
(* call: when it is false the call removes the entity's document, makes no *)
(* index write and reports False; when it is true the call makes an index  *)
(* write, no removal, and reports True.                                    *)
(***************************************************************************)
\* should_index as the index class defines it, on what the call was given.
Indexable(item, store) ==
    IF item.t = "instance" THEN item.live ELSE store[PkOf(item.s)] = "live"

Made(trace, op) == \E i \in 1..Len(trace) : trace[i].op = op

C15_ShouldIndexDecides ==
    output.applied =>
        LET c == output.value
        IN  IF Indexable(c.item, c.store)
            THEN /\ Made(c.calls, "backend.update")
                 /\ ~Made(c.calls, "backend.remove")
                 /\ c.returned \in {"True", "raised"}
                 /\ c.returned = "True" =>
                        c.after = c.before \cup {get_identifier(c.item)}
            ELSE /\ Made(c.calls, "backend.remove")
                 /\ ~Made(c.calls, "backend.update")
                 /\ c.returned \in {"False", "raised"}
                 /\ c.returned = "False" =>
                        c.after = c.before \ {get_identifier(c.item)}

\* A call for an entity whose document is indexed and which is not to be
\* indexed any more: the document is removed and False reported.
C15_Witness ==
    /\ output.applied
    /\ ~Indexable(output.value.item, output.value.store)
    /\ get_identifier(output.value.item) \in output.value.before
    /\ output.value.returned = "False"
    /\ get_identifier(output.value.item) \notin index

(***************************************************************************)
(* Claims about ElasticsearchSearchBackend.setup.                          *)
(***************************************************************************)
\* The last call was setup, it stopped right after reading the engine's
\* mapping because create_index or put_mapping had failed for an index
\* name, and failures are not tolerated quietly.
SetupStopped ==
    /\ hCall.op = "setup"
    /\ Len(hCall.requests) >= 2
    /\ hCall.requests[Len(hCall.requests)].op = "get_mapping"
    /\ hCall.error # NoError
    /\ backendConf.debug \/ ~backendConf.silently_fail

FailedIndex == hCall.requests[Len(hCall.requests) - 1].index

\* The fields find_conflicts reports between the existing mapping that
\* setup read and the mapping it built for the index name that failed.
Conflicting ==
    {f \in SearchFields :
        \E order \in Perms(SearchFields), i \in 1..(3 * Cardinality(SearchFields)) :
            /\ i <= Len(find_conflicts(existing_mapping, current_mapping(FailedIndex), order))
            /\ find_conflicts(existing_mapping, current_mapping(FailedIndex), order)[i] = f}

(***************************************************************************)
(* C16. When create_index or put_mapping fails in setup, find_conflicts    *)
(* reports a conflicting field between the engine's existing mapping and   *)
(* the newly built one, and failures are not tolerated quietly, setup      *)
(* fails with a HaystackError that names a conflicting field, not with     *)
(* the original remote error.                                              *)
(***************************************************************************)
C16_ConflictRaisesHaystackError ==
    (/\ SetupStopped
     /\ existing_mapping = engine[FailedIndex]
     /\ Conflicting # {})
        => /\ hCall.raised.type = "HaystackError"
           /\ hCall.raised.at \in Conflicting

(***************************************************************************)
(* C17. When create_index or put_mapping fails in setup and find_conflicts *)
(* reports no conflict (also when no existing mapping was found for the    *)
(* index name), the error of the failed remote call is the one that        *)
(* propagates out of setup, provided failures are not tolerated quietly.   *)
(***************************************************************************)
C17_NoConflictRaisesOriginal ==
    (SetupStopped /\ Conflicting = {})
        => /\ hCall.raised = hCall.error
           /\ hCall.raised.type \in RemoteErrors
           /\ hCall.raised.at = hCall.requests[Len(hCall.requests) - 1].op
           /\ ~setup_complete \/ hCall.complete

\* put_mapping failed for an index the engine does not hold a mapping
\* of, and its error came out of setup.
C17_Witness ==
    /\ SetupStopped
    /\ Conflicting = {}
    /\ existing_mapping = EmptyMapping
    /\ hCall.error.at = "put_mapping"
    /\ hCall.raised = hCall.error

(***************************************************************************)
(* C18. Once setup has completed (setup_complete is true), no later call   *)
(* of setup, update, remove, search or get_document_ids issues another     *)
(* create_index or put_mapping request.                                    *)
(***************************************************************************)
C18_SetupSingleFlight ==
    hCall.complete =>
        \A i \in 1..Len(hCall.requests) :
            hCall.requests[i].op \notin {"create_index", "put_mapping"}

(***************************************************************************)
(* C19. In update, when preparing one entity of the batch raises, that     *)
(* entity alone is skipped: the documents of every other entity, before    *)
(* and after it, are submitted in the single bulk write, and the failure   *)
(* is logged with the failed entity's identifier; for any exception and    *)
(* any position of the failing entity.                                     *)
(***************************************************************************)
Failing(batch) == {i \in 1..Len(batch) : batch[i].prep # "ok"}

DocsWithout(batch, i) ==
    [k \in 1..(Len(batch) - 1) |-> DocId(batch[IF k < i THEN k ELSE k + 1])]

C19_FailedPreparationSkipped ==
    (hCall.op = "update" /\ hCall.complete) =>
        \A i \in Failing(hCall.args) :
            Failing(hCall.args) = {i} =>
                /\ \E r \in 1..Len(hCall.requests) :
                      /\ hCall.requests[r].op = "bulk_index"
                      /\ hCall.requests[r].docs = DocsWithout(hCall.args, i)
                /\ \E l \in 1..Len(hCall.logged) :
                      hCall.logged[l].object = DocId(hCall.args[i])

(***************************************************************************)
(* C20. _send_request raises ElasticSearchError for every response whose   *)
(* list of items holds at least one item-level error, whatever the item's  *)
(* operation (index, create, update, delete), and returns the response     *)
(* unchanged when the list holds no error.                                 *)
(***************************************************************************)
HoldsError(response) ==
    /\ response.items.t = "list"
    /\ \E i \in 1..Len(response.items.v) : "error" \in response.items.v[i].result.keys

C20_BuriedErrorsRaise ==
    output.applied =>
        IF HoldsError(input.value)
        THEN output.value.raised.type = "ElasticSearchError"
        ELSE /\ output.value.raised = NoError
             /\ output.value.returned = input.value

(***************************************************************************)
(* C21. search called with an empty query string returns the empty result  *)
(* without any request to the engine, setup requests included, whether or  *)
(* not setup has completed.                                                *)
(***************************************************************************)
C21_EmptyQueryAsksNothing ==
    (hCall.op = "search" /\ Len(hCall.args) = 0) =>
        /\ hCall.requests = <<>>
        /\ hCall.returned = "empty"
        /\ hCall.raised = NoError
        /\ setup_complete = hCall.complete

\* An empty search on a backend whose setup has not completed.
C21_Witness ==
    /\ hCall.op = "search"
    /\ Len(hCall.args) = 0
    /\ ~hCall.complete
    /\ ~setup_complete
    /\ hCall.returned = "empty"

(***************************************************************************)
(* Claims about find_conflicts.                                            *)
(***************************************************************************)
\* The fields both mappings hold.
SharedFields(old, new) ==
    IF old.t = "mapping" /\ new.t = "mapping"
    THEN DOMAIN old.properties \cap DOMAIN new.properties
    ELSE {}

Yielded(f) == {i \in 1..Len(output.value) : output.value[i] = f}

\* Two values of a property that differ and are not a declared
\* equivalence pair, in either order.
Clash(a, b) ==
    /\ a # b
    /\ ~(a = PyStr("no") /\ b = None) /\ ~(a = None /\ b = PyStr("no"))
    /\ ~(a = PyStr("yes") /\ b = True) /\ ~(a = True /\ b = PyStr("yes"))

(***************************************************************************)
(* C22. find_conflicts compares only fields present in both mappings: a    *)
(* field present in one mapping only is never yielded, and mappings that   *)
(* share no field name yield the empty sequence.                           *)
(***************************************************************************)
C22_OnlySharedFields ==
    output.applied =>
        /\ \A i \in 1..Len(output.value) :
              output.value[i] \in SharedFields(input.value.old, input.value.new)
        /\ SharedFields(input.value.old, input.value.new) = {}
              => output.value = <<>>

\* Two mappings with a shared field that conflicts and a field that only
\* the new mapping has: only the shared one is yielded.
C22_Witness ==
    /\ output.applied
    /\ SharedFields(input.value.old, input.value.new) = {"title"}
    /\ input.value.new.t = "mapping"
    /\ "body" \in DOMAIN input.value.new.properties
    /\ Yielded("title") # {}
    /\ Yielded("body") = {}

(***************************************************************************)
(* C23. When a shared field's 'type' differs between the mappings and the  *)
(* two types are not an equivalence pair, the field's name appears exactly *)
(* once in the sequence find_conflicts yields, whatever its 'analyzer' and *)
(* 'store' values are.                                                     *)
(***************************************************************************)
C23_TypeConflictYieldedOnce ==
    output.applied =>
        \A f \in SharedFields(input.value.old, input.value.new) :
            Clash(input.value.old.properties[f].type,
                  input.value.new.properties[f].type)
                => Cardinality(Yielded(f)) = 1

(***************************************************************************)
(* C24. A shared field is yielded by find_conflicts if and only if at      *)
(* least one of its 'type', 'store' or 'analyzer' values differs between   *)
(* the mappings and the differing pair is not one of the equivalence pairs *)
(* {'no', None}, {'yes', True}, in either order.                           *)
(***************************************************************************)
C24_YieldedIffClash ==
    output.applied =>
        \A f \in SharedFields(input.value.old, input.value.new) :
            Yielded(f) # {}
                <=> \/ Clash(input.value.old.properties[f].type,
                             input.value.new.properties[f].type)
                    \/ Clash(input.value.old.properties[f].store,
                             input.value.new.properties[f].store)
                    \/ Clash(input.value.old.properties[f].analyzer,
                             input.value.new.properties[f].analyzer)

\* A field whose store values are equivalent (True and 'yes') is not
\* yielded while another whose store values are 'no' and 'yes' is.
C24_Witness ==
    /\ output.applied
    /\ SharedFields(input.value.old, input.value.new) = SearchFields
    /\ input.value.old.properties["title"].store = True
    /\ input.value.new.properties["title"].store = PyStr("yes")
    /\ Yielded("title") = {}
    /\ input.value.old.properties["body"].store = PyStr("no")
    /\ input.value.new.properties["body"].store = PyStr("yes")
    /\ Yielded("body") # {}

(***************************************************************************)
(* C25. After build_schema no field whose type is 'boolean' carries an     *)
(* 'analyzer' attribute or 'index' equal to 'analyzed', for every field    *)
(* definition and every configuration (NEW_VERSION set or not).            *)
(***************************************************************************)
BooleanFields(schema) ==
    {f \in DOMAIN schema : dict_get(schema[f], "type") = PyStr("boolean")}

NotAnalyzed(schema) ==
    \A f \in BooleanFields(schema) :
        /\ "analyzer" \notin DOMAIN schema[f]
        /\ dict_get(schema[f], "index") # PyStr("analyzed")

C25_BooleanNeverAnalyzed == output.applied => NotAnalyzed(output.value)

\* Amended: the rewriting is made for NEW_VERSION only; without it the
\* parent's schema is returned as it is.
C25_BooleanNotAnalyzedWhenNewVersion ==
    output.applied =>
        IF input.value.new_version
        THEN /\ NotAnalyzed(output.value)
             /\ BooleanFields(output.value) = BooleanFields(input.value.field_mapping)
        ELSE output.value = input.value.field_mapping

\* NEW_VERSION, and a boolean field the parent marked 'analyzed'.
C25_Witness ==
    /\ output.applied
    /\ input.value.new_version
    /\ \E f \in BooleanFields(input.value.field_mapping) :
          /\ input.value.field_mapping[f].index = PyStr("analyzed")
          /\ "index" \notin DOMAIN output.value[f]

(***************************************************************************)
(* C26. An identifier '<type-namespace>.<type-name>.<primary-key>' split   *)
(* into its three components the way _get_model does and re-joined with    *)
(* '.' is the original string, and the third component is the primary key. *)
(***************************************************************************)
RECURSIVE join(_, _)
join(sep, parts) ==
    IF parts = <<>> THEN <<>>
    ELSE IF Len(parts) = 1 THEN parts[1]
    ELSE parts[1] \o sep \o join(sep, Tail(parts))

C26_IdentifierRoundTrip ==
    output.applied =>
        /\ output.value.error = "none"
        /\ join(<<".">>, output.value.parts) = input.value.identifier
        /\ output.value.parts[3] = input.value.pk

\* A primary key that itself holds the separator.
C26_Witness ==
    /\ output.applied
    /\ \E i \in 1..Len(input.value.pk) : input.value.pk[i] = "."
    /\ output.value.parts[3] = input.value.pk

C27_WitnessUpdate ==
    /\ output.applied
    /\ output.value.deliveries = 2
    /\ unpack(input.value.body).error = "ok"
    /\ ~unpack(input.value.body).remove
    /\ unpack(input.value.body).identifier \notin input.value.index
    /\ output.value.applied
    /\ AppliedUpdate(output.value.last)
    /\ unpack(input.value.body).identifier \in output.value.last.index

(***************************************************************************)
(* C28. Once the changes of an entity have stopped and every message       *)
(* queued for its identifier has been processed, in whatever order the     *)
(* messages were delivered, the index holds the entity's document if and   *)
(* only if the entity exists in the data store and should_index holds.     *)
(***************************************************************************)
Converged ==
    \A pk \in PKs :
        Ident(pk) \in index <=> should_index(LazyItem(Ident(pk)), db)

\* Every message that was queued has been applied and acknowledged.
Drained == queue = {} /\ nextMsgId > 1

C28_ConvergesWhenDrained == Drained => Converged

Logged(error) ==
    \E i \in 1..Len(output.value.calls) :
        /\ output.value.calls[i].op = "log.exception"
        /\ output.value.calls[i].err = error

C30_Case ==
    /\ Handling
    /\ NumAttempts >= 1
    /\ AttemptResult(1) \in RetryExceptions

\* Failed attempt, pause, single retry, in this order.
PauseThenRetry ==
    /\ Count("time.sleep") = 1
    /\ \A s \in Positions("time.sleep") :
          /\ AttemptPos(1) < s
          /\ \A i \in Positions("update_search_index") \ {AttemptPos(1)} : s < i
    /\ NumAttempts <= 2
    /\ Returned => NumAttempts = 2

\* One reset, after the failed attempt and before the pause.
ResetBeforePause ==
    /\ Count("connection.close") = 1
    /\ \A c \in Positions("connection.close"), s \in Positions("time.sleep") :
          AttemptPos(1) < c /\ c < s

C30_ResetBeforeRetry == C30_Case => (PauseThenRetry /\ ResetBeforePause)

\* Amended: the connections are reset for a DatabaseError only.
C30_ResetOnDatabaseErrorOnly ==
    C30_Case =>
        /\ PauseThenRetry
        /\ IF AttemptResult(1) = "DatabaseError" THEN ResetBeforePause
           ELSE Count("connection.close") = 0

\* A DatabaseError at the first attempt, and the retry made.
C30_Witness ==
    /\ C30_Case
    /\ Returned
    /\ AttemptResult(1) = "DatabaseError"
    /\ NumAttempts = 2
    /\ ResetBeforePause

(***************************************************************************)
(* C31. update_object given an identifier string with remove false, of an  *)
(* entity that no longer exists in the data store, becomes a removal: the  *)
(* index's remove_object is called for that identifier and no index write  *)
(* is made.                                                                *)
(***************************************************************************)
GoneMessage == unpack(input.value.body)

C31_Case ==
    /\ output.applied
    /\ GoneMessage.error = "ok"
    /\ ~GoneMessage.remove
    /\ get_model_of(GoneMessage.identifier) = "ok"
    /\ ~Exists(input.value.store, GoneMessage.identifier)

C31_GoneEntityRemoved ==
    C31_Case =>
        /\ \A i \in 1..Len(output.value.last.calls) :
              output.value.last.calls[i].op \in IndexOps =>
                  /\ output.value.last.calls[i].op \in
                         {"index.remove_object", "backend.remove"}
                  /\ output.value.last.calls[i].id = GoneMessage.identifier
        /\ AppliedUpdate(output.value.last) =>
              /\ \E i \in 1..Len(output.value.last.calls) :
                    output.value.last.calls[i].op = "index.remove_object"
              /\ GoneMessage.identifier \notin output.value.last.index

\* The document of the entity that is gone was in the index.
C31_Witness ==
    /\ C31_Case
    /\ output.value.deliveries = 1
    /\ GoneMessage.identifier \in input.value.index
    /\ AppliedUpdate(output.value.last)
    /\ GoneMessage.identifier \notin output.value.last.index

(***************************************************************************)
(* C32. A failed setup in quiet mode does not mark setup as done:          *)
(* setup_complete is true only if create_index and put_mapping succeeded   *)
(* for every index name, so that after a tolerated (logged, not raised)    *)
(* failure the next update, remove or search attempts setup again.         *)
(***************************************************************************)
\* The last call was setup, begun with the flag unset, and a create_index
\* or put_mapping of it failed.
SetupFailed ==
    /\ hCall.op = "setup"
    /\ ~hCall.complete
    /\ hCall.error # NoError
    /\ hCall.error.at \in {"create_index", "put_mapping"}

C32_FailedSetupNotComplete == SetupFailed => ~setup_complete

(***************************************************************************)
(* C33. When the body of a search_update_options(...) scope raises, the    *)
(* options named by the scope are still restored on the way out: after the *)
(* exception has left the scope every option reads what it read before the *)
(* scope was entered.                                                      *)
(***************************************************************************)
C33_RaiseStep ==
    \A t \in Threads :
        RaisedFrom(t) =>
            Reads(t, settings', tls') = stacks[t][Len(stacks[t])].reads

C33_RestoredWhenBodyRaises == [][C33_RaiseStep]_vars

(***************************************************************************)
(* C34. Entering search_update_options with an option name outside         *)
(* {async, disabled, percolate} fails with an assertion error and leaves   *)
(* every option's scoped value as it was before the call, also when the    *)
(* call names recognized options too.                                      *)
(***************************************************************************)
C34_FailedStep ==
    \A t \in Threads : EnterFailed(t) => tls'[slot(t)] = tls[slot(t)]

C34_UnknownOptionChangesNothing == [][C34_FailedStep]_vars

(***************************************************************************)
(* C35. Inside an active search_update_options scope that names an option, *)
(* reading the option returns the scope's value even when                  *)
(* settings.HAYSTACK_UPDATE_OPTIONS defines the option too; with no active *)
(* scope and no settings override the option reads its default (async      *)
(* true, disabled false, percolate true).                                  *)
(***************************************************************************)
ScopeValue(t, name) == stacks[t][Innermost(stacks[t], name)].options[name]

C35_ScopeValueWins ==
    \A t \in Threads, name \in OptionNames :
        /\ Naming(stacks[t], name) # {} =>
               Reads(t, settings, tls)[name] = ScopeValue(t, name)
        /\ (stacks[t] = <<>> /\ name \notin DOMAIN settings) =>
               Reads(t, settings, tls)[name] = defaults[name]

\* Amended: the settings' value comes first, then the innermost scope's,
\* then the default.
C35_SettingsThenScopeThenDefault ==
    \A t \in Threads, name \in OptionNames :
        Reads(t, settings, tls)[name] =
            IF name \in DOMAIN settings THEN settings[name]
            ELSE IF Naming(stacks[t], name) # {} THEN ScopeValue(t, name)
            ELSE defaults[name]

\* A scope gives async the value the settings do not give it.
C35_Witness ==
    /\ "async" \in DOMAIN settings
    /\ Naming(stacks["t1"], "async") # {}
    /\ ScopeValue("t1", "async") # settings["async"]
    /\ Reads("t1", settings, tls)["async"] = settings["async"]

(***************************************************************************)
(* C36. For every message process_message calls queue.ack at most once, on *)
(* every path through the handler, the paths where queue.ack itself raises *)
(* included; and a message whose update was applied is never reported as   *)
(* 'could not process'.                                                    *)
(***************************************************************************)
UpdateApplied ==
    \E i \in Positions("update_search_index") : calls[i].err = "ok"

C36_AckAtMostOnce ==
    Handling =>
        /\ Count("queue.ack") <= 1
        /\ UpdateApplied => Count("log.critical") = 0

(***************************************************************************)
(* C37. Fan-out always produces updates, never removals: when a related    *)
(* entity is deleted, each target entity receives a synthetic saved event  *)
(* dispatched with remove false, and the document of a target is removed   *)
(* only if the target no longer exists or should_index is false for it.    *)
(***************************************************************************)
\* What the related handlers of the step's send raised and dispatched.
FannedOut(sent) ==
    \A k \in 1..Len(sent.invoked) :
        /\ sent.invoked[k].receiver.kind = "related"
        /\ \A i \in 1..Len(sent.invoked[k].raised) :
               sent.invoked[k].raised[i].signal = "post_save"
        /\ \A i \in 1..Len(sent.invoked[k].made) :
               ~sent.invoked[k].made[i].remove

C37_Step ==
    (hSend'.signal # "none" /\ hSend'.sender \in RelatedModels) =>
        /\ FannedOut(hSend')
        /\ \A id \in index \ index' : ~should_index(LazyItem(id), db')

C37_FanOutNeverRemoves == [][C37_Step]_vars

\* A related entity was deleted and its handler dispatched an update of a
\* target at once.
C37_Witness ==
    /\ hSend.signal = "post_delete"
    /\ hSend.sender \in RelatedModels
    /\ \E k \in 1..Len(hSend.invoked) :
          /\ hSend.invoked[k].receiver.kind = "related"
          /\ Len(hSend.invoked[k].made) >= 1
          /\ hSend.invoked[k].made[1].fn = "update_object"
          /\ ~hSend.invoked[k].made[1].remove
          /\ hSend.invoked[k].raised[1].signal = "post_save"

(***************************************************************************)
(* C38. Every relation declared by get_related_models gets a working       *)
(* handler: when an index declares two relations to the same related model *)
(* through two accessors, a change of an instance of that model fans out   *)
(* through both accessors after setup.                                     *)
(***************************************************************************)
\* The accessors the related handlers invoked by the last send went through.
FieldsInvoked ==
    {hSend.invoked[k].receiver.field : k \in InvokedOf("related")}

C38_EveryRelationHandled ==
    /\ \A signal \in Signals :
           setups[signal] >= 1 =>
               \A i \in 1..Len(declared) :
                   declared[i].field \in ConnectedFields(signal, declared[i].model)
    /\ (/\ hSend # NoSend
        /\ setups[hSend.signal] >= 1
        /\ \A k \in 1..Len(hSend.invoked) : hSend.invoked[k].error = "ok")
           => \A i \in 1..Len(declared) :
                  declared[i].model = hSend.sender =>
                      declared[i].field \in FieldsInvoked

(***************************************************************************)
(* The clean_index command beside other processes that save and delete     *)
(* entities (management/commands/clean_index.py).                          *)
(***************************************************************************)
\* model_label(model) of the indexed model: "app_label.module_name".
model_label == AppLabel \o <<".">> \o ModuleName

\* Line 48-49: set(smart_str(pk) for pk in index.index_queryset()
\* .values_list('id', flat=True)), every row of the model.
database_ids(store) == {IntToStr(pk) : pk \in {k \in PKs : store[k] # "absent"}}

\* SearchQuerySet().models(model).get_django_ids(): the third part of every
\* document id of the model that splits into three parts at its dots.
get_django_ids(idx) ==
    {Split(id, Len(id))[3] :
        id \in {d \in idx : /\ Len(Split(d, Len(d))) = 3
                            /\ Split(d, Len(d))[1] = AppLabel
                            /\ Split(d, Len(d))[2] = ModuleName}}

\* backend.remove(document_id): the document is deleted from the index.
backend_remove(document_id, idx) == idx \ {document_id}

\* The locals of handle_model: the line it has reached, db_ids, the
\* leftovers still to remove, and the documents removed so far.
Command(at, db_ids, leftovers, removed) ==
    [at |-> at, db_ids |-> db_ids, leftovers |-> leftovers, removed |-> removed]

\* Lines 46-49 of handle_model: the ids in the data store are read.
GetDatabaseIds ==
    /\ output = NotApplied
    /\ output' = Applied(Command("db_ids", database_ids(db), {}, {}))
    /\ NoHistory
    /\ UNCHANGED <<input, db, txnOpen, txnDb, pending, toRun, settings, attrs,
                   scopes, queue, nextMsgId, index, pc, cur, seen, calls,
                   txnCalls, due, ran, besideCalls>>

\* Lines 51-59: the indexed ids are read and the leftovers computed.
GetIndexedIds ==
    /\ output.applied
    /\ output.value.at = "db_ids"
    /\ \E leftovers \in {get_django_ids(index) \ output.value.db_ids} :
          output' = Applied(Command(IF leftovers = {} THEN "done" ELSE "removing",
                                    output.value.db_ids, leftovers, {}))
    /\ NoHistory
    /\ UNCHANGED <<input, db, txnOpen, txnDb, pending, toRun, settings, attrs,
                   scopes, queue, nextMsgId, index, pc, cur, seen, calls,
                   txnCalls, due, ran, besideCalls>>

\* remove_leftovers, one turn of its loop: "for pk in pks" takes the keys of
\* the set in any order.
RemoveLeftover ==
    /\ output.applied
    /\ output.value.at = "removing"
    /\ \E pk \in output.value.leftovers :
          \E document_id \in {model_label \o <<".">> \o pk} :
              /\ index' = backend_remove(document_id, index)
              /\ output' = Applied(Command(
                     IF output.value.leftovers = {pk} THEN "done" ELSE "removing",
                     output.value.db_ids, output.value.leftovers \ {pk},
                     output.value.removed \cup {document_id}))
    /\ NoHistory
    /\ UNCHANGED <<input, db, txnOpen, txnDb, pending, toRun, settings, attrs,
                   scopes, queue, nextMsgId, pc, cur, seen, calls,
                   txnCalls, due, ran, besideCalls>>

\* Another process saves or deletes an entity outside a transaction, inside
\* search_update_options(disabled=True) or not; the handler updates the
\* index at once when it is not disabled.
SaveOrDelete ==
    \E pk \in PKs, signal \in Signals, live \in BOOLEAN, disabled \in BOOLEAN :
        /\ signal = "post_delete" => (db[pk] # "absent" /\ live = (db[pk] = "live"))
        /\ \E store \in {[db EXCEPT ![pk] = Written(signal, live)]} :
           \E made \in {search_index_signal_handler(
                            Instance(pk, live), signal, settings,
                            IF disabled THEN [name \in {"disabled"} |-> TRUE]
                            ELSE NoAttrs)} :
              /\ db' = store
              /\ txnDb' = store
              /\ hEvent' = [signal |-> signal, pk |-> pk, made |-> made]
              /\ hRun' = NoRun
              /\ index' = IF made = <<>> THEN index
                          ELSE update_object(made[1].item, made[1].remove,
                                             exception_handling_default,
                                             store, index, "ok").index
        /\ UNCHANGED <<input, output, txnOpen, pending, toRun, settings, attrs,
                       scopes, queue, nextMsgId, pc, cur, seen, calls,
                       txnCalls, due, ran, besideCalls>>

\* The command starts on any data store and any index of the model's
\* documents, one with an id that is no identifier among them; updates are
\* synchronous.
InitClean ==
    /\ db \in [PKs -> EntityStates]
    /\ txnOpen = FALSE
    /\ txnDb = db
    /\ pending = <<>>
    /\ toRun = <<>>
    /\ settings = SyncSettings
    /\ attrs = NoAttrs
    /\ scopes = <<>>
    /\ queue = {}
    /\ nextMsgId = 1
    /\ index \in SUBSET (Idents \cup BadIdents)
    /\ pc = "stopped"
    /\ cur = NoMsg
    /\ seen = {}
    /\ calls = <<>>
    /\ hEvent = NoEvent
    /\ hRun = NoRun
    /\ txnCalls = Zero
    /\ due = Zero
    /\ ran = Zero
    /\ SignalsIdle
    /\ ThreadsIdle
    /\ BackendIdle
    /\ input = NoInput
    /\ output = NotApplied

NextClean == GetDatabaseIds \/ GetIndexedIds \/ RemoveLeftover \/ SaveOrDelete

SpecClean == InitClean /\ [][NextClean]_vars

(***************************************************************************)
(* C39. clean_index removes exactly the documents whose primary key is     *)
(* indexed but absent from the data store: a document it removes is the    *)
(* document of no entity that exists in the data store, also when entities *)
(* are created and indexed by other processes between the command's read   *)
(* of the data-store ids and its read of the indexed ids.                  *)
(***************************************************************************)
\* The step is a turn of remove_leftovers.
Removes ==
    /\ output.applied
    /\ output.value.at = "removing"
    /\ output'.value.removed # output.value.removed

C39_Step ==
    Removes => \A id \in index \ index' : ~Exists(db, id)

C39_RemovesLeftoversOnly == [][C39_Step]_vars
====
